---- MODULE Spec2Model ----
(***************************************************************************)
(* A model of dev-orchestrator: the version-control safety layer (GitOps), *)
(* the run ledger (RunContext), the two run drivers (Executor.run and      *)
(* AgentExecutor.run, with the CLI's own drivers) and the phased 1-N-1     *)
(* workflow.                                                               *)
(*                                                                         *)
(* The specifications share the variables:                                 *)
(*   SpecGit   any sequence of GitOps operations on one repository;        *)
(*   SpecRun   one run, from RunContext.create to the end of the driver;   *)
(*   SpecFlow  one execution of the phased workflow followed by            *)
(*             AgentExecutor.apply_file_changes;                           *)
(*   SpecRole  one role.execute call on one task;                          *)
(*   SpecCmd   one git subprocess run by GitOps._run_git;                  *)
(*   SpecPlan  Planner.create_plan on goal texts;                          *)
(*   SpecCtx   any sequence of RunContext calls in one runs directory;     *)
(*   SpecSlug  GitOps.generate_branch_name on goal strings.                *)
(* RunContext.logs is part of the state in SpecCtx only; elsewhere the     *)
(* status lines of the log are kept in statusHist.                         *)
(***************************************************************************)
EXTENDS Integers, Sequences, FiniteSets, TLC

\* ---------------------------------------------------------------- bounds
MaxPaths == 2

Paths == 1..MaxPaths
Msgs == {"m1", "m2"}
Goals == {"g1", "g2"}

\* ------------------------------------------------------------- constants
PROTECTED_BRANCHES == {"main", "master", "develop", "production"}

\* GitOps.generate_branch_name(goal): prefix/date/slug, one name per goal on a
\* given day.
generate_branch_name(goal) == "orchestrator/d/" \o goal

\* Names a caller can pass that are not protected.
FeatureNames == {generate_branch_name(g) : g \in Goals}
BranchNames == PROTECTED_BRANCHES \cup FeatureNames

\* Local branch sets a target repository starts with.
InitialBranchSets == {{"main"}, {"master", "develop"}}

NoBranch == "null"

VARIABLES
    \* --- the target repository (git) ---
    repoKind,     \* "missing" | "notgit" | "git"
    branches,     \* local branches
    current,      \* the branch HEAD points to
    originHead,   \* refs/remotes/origin/HEAD: a branch name, or "none"
    wc,           \* working copy: path -> content, "absent" for no file
    dirty,        \* paths whose working-copy content differs from the index
    index,        \* staged paths
    commitLog,    \* the branches GitOps.commit created a commit on: [branch]
    gitRes,       \* the GitOps call made by the last step (op "none": no call)
    proc,         \* the git subprocess _run_git runs: command, ending, result
    ledger,       \* RunContext objects, the runs directory and the last load
    \* --- the run ledger (RunContext) ---
    goal,         \* RunContext.goal
    branch_name,  \* RunContext.branch_name
    status,       \* RunContext.status
    errors,       \* RunContext.errors
    saved,        \* state.json of the run directory
    report,       \* report.md of the run directory
    \* --- the driver of the run and its executor object ---
    driver,       \* "executor" | "agent" | "cli_run" | "cli_agents"
    dry_run,      \* --dry-run of the run command
    llm,          \* check_llm_available()
    pc,           \* the call the driver makes next
    exc,          \* the exception being propagated, "none" otherwise
    git_ops,      \* executor.git_ops is set
    plan,         \* executor.plan.tasks: [type, role, status]
    ti,           \* index of the task the loop over plan.tasks is at
    proposals,    \* Executor.proposals
    modified_files, \* executor.modified_files
    final_state,  \* AgentExecutor.final_state (AgentState), isNone before
    \* --- the phased workflow (workflow.py) ---
    state,        \* the AgentState run_workflow passes from node to node
    st,           \* per agent: "idle" | "running" | "done" | "raised"
    given,        \* per agent: the arguments its execute() was called with
    res,          \* per phase-two worker: what its coroutine ended with;
                  \* for the reviewer: what its LLM call gave back
    \* --- history ---
    statusHist,   \* every status set_status was called with, in order
    trace         \* generation and mutation events of the run, in order

gitVars == <<repoKind, branches, current, originHead, wc, dirty, index, commitLog, gitRes>>
ctxVars == <<goal, branch_name, status, errors, saved, report>>
runVars == <<driver, dry_run, llm, pc, exc, git_ops, plan, ti, proposals, modified_files, final_state>>
flowVars == <<state, st, given, res>>
histVars == <<statusHist, trace>>
vars == <<gitVars, ctxVars, runVars, flowVars, histVars, proc, ledger>>

\* ------------------------------------------------------------------ GitOps

\* A GitOps call's outcome: "ok" (GitResult.success), "fail" (a GitResult with
\* success false), "raise" (GitError).  arg is the name create_branch was given,
\* on the branch that was current when commit was called ("none" for the other
\* operations), err the GitError's text.
Res(op, arg, on, outcome, err) ==
    [op |-> op, arg |-> arg, on |-> on, outcome |-> outcome, err |-> err]

is_protected_branch_NarrowSet(branch) == branch \in {"main", "master"}

is_protected_branch(branch) == branch \in PROTECTED_BRANCHES

branch_exists(branch) == branch \in branches

get_default_branch ==
    IF originHead # "none" THEN originHead
    ELSE IF "main" \in branches THEN "main"
    ELSE IF "master" \in branches THEN "master"
    ELSE "main"

\* git checkout <b>: fails when b is no branch; may fail otherwise (local
\* changes that would be overwritten).
CheckoutCanSucceed(b) == b \in branches

create_branch_ChecksAfterCheckout(name) ==
    \E okBase \in BOOLEAN, okNew \in BOOLEAN :
       LET base == get_default_branch IN
       IF ~(okBase /\ CheckoutCanSucceed(base))
       THEN /\ gitRes' = Res("create_branch", name, "none", "raise", "checkout")
            /\ UNCHANGED <<branches, current, branch_name>>
       ELSE IF is_protected_branch(name)
       THEN /\ gitRes' = Res("create_branch", name, "none", "raise", "protected")
            /\ current' = base
            /\ UNCHANGED <<branches, branch_name>>
       ELSE IF branch_exists(name)
       THEN /\ gitRes' = Res("create_branch", name, "none", "raise", "exists")
            /\ current' = base
            /\ UNCHANGED <<branches, branch_name>>
       ELSE IF ~okNew
       THEN /\ gitRes' = Res("create_branch", name, "none", "raise", "checkout")
            /\ current' = base
            /\ UNCHANGED <<branches, branch_name>>
       ELSE /\ gitRes' = Res("create_branch", name, "none", "ok", "none")
            /\ branches' = branches \cup {name}
            /\ current' = name
            /\ branch_name' = name

\* GitOps.create_branch(branch_name), base_branch left None, with a context.
create_branch(name) ==
    IF is_protected_branch(name)
    THEN /\ gitRes' = Res("create_branch", name, "none", "raise", "protected")
         /\ UNCHANGED <<branches, current, branch_name>>
    ELSE IF branch_exists(name)
    THEN /\ gitRes' = Res("create_branch", name, "none", "raise", "exists")
         /\ UNCHANGED <<branches, current, branch_name>>
    ELSE \E okBase \in BOOLEAN, okNew \in BOOLEAN :
           LET base == get_default_branch IN
           IF ~(okBase /\ CheckoutCanSucceed(base))
           THEN \* checkout base raised: nothing was done
                /\ gitRes' = Res("create_branch", name, "none", "raise", "checkout")
                /\ UNCHANGED <<branches, current, branch_name>>
           ELSE IF ~okNew
           THEN \* checkout -b raised: HEAD stays on base
                /\ gitRes' = Res("create_branch", name, "none", "raise", "checkout")
                /\ current' = base
                /\ UNCHANGED <<branches, branch_name>>
           ELSE /\ gitRes' = Res("create_branch", name, "none", "ok", "none")
                /\ branches' = branches \cup {name}
                /\ current' = name
                /\ branch_name' = name

\* GitOps.checkout_branch(branch_name)
checkout_branch(name) ==
    IF ~branch_exists(name)
    THEN /\ gitRes' = Res("checkout_branch", "none", "none", "raise", "missing")
         /\ UNCHANGED current
    ELSE \E ok \in BOOLEAN :
           IF ok
           THEN /\ gitRes' = Res("checkout_branch", "none", "none", "ok", "none")
                /\ current' = name
           ELSE /\ gitRes' = Res("checkout_branch", "none", "none", "raise", "checkout")
                /\ UNCHANGED current

\* GitOps.stage_files(files): git add <files>, or git add -A for an empty list.
\* git add raises (check=True) when a pathspec matches nothing.
stage_files(files) ==
    \E ok \in BOOLEAN :
      IF ok
      THEN LET added == IF files = {} THEN dirty ELSE files \cap dirty IN
           /\ gitRes' = Res("stage_files", "none", "none", "ok", "none")
           /\ index' = index \cup added
           /\ dirty' = dirty \ added
      ELSE /\ gitRes' = Res("stage_files", "none", "none", "raise", "add")
           /\ UNCHANGED <<index, dirty>>

\* GitOps.commit(message, allow_empty).  git commit runs with check=False: it
\* succeeds only with something staged or with --allow-empty, and may fail.
\* The message goes into the git command and the log line only.
commit(message, allow_empty) ==
    \/ \* get_current_branch raised
       /\ gitRes' = Res("commit", "none", current, "raise", "rev-parse")
       /\ UNCHANGED <<index, commitLog>>
    \/ IF is_protected_branch(current)
       THEN /\ gitRes' = Res("commit", "none", current, "raise", "protected")
            /\ UNCHANGED <<index, commitLog>>
       ELSE \/ /\ index # {} \/ allow_empty
               /\ gitRes' = Res("commit", "none", current, "ok", "none")
               /\ commitLog' = commitLog \cup {[branch |-> current]}
               /\ index' = {}
            \/ /\ gitRes' = Res("commit", "none", current, "fail", "none")
               /\ UNCHANGED <<index, commitLog>>

validate_repo_AlwaysValid == TRUE

\* GitOps.validate_repo()
validate_repo == repoKind = "git"

\* ------------------------------------------------------------ shared data

\* FileChange (base_agent.py) and the file-change dictionaries of the roles.
FC(path, action, content) == [path |-> path, action |-> action, content |-> content]

\* AgentOutput; isNone stands for Python's None in an AgentState slot.
Out(success, summary, file_changes, issues) ==
    [isNone |-> FALSE, success |-> success, summary |-> summary,
     file_changes |-> file_changes, issues |-> issues]

NoneOut ==
    [isNone |-> TRUE, success |-> FALSE, summary |-> "none",
     file_changes |-> <<>>, issues |-> <<>>]

Agents == {"architect", "implementer", "tester", "documenter", "reviewer"}
Workers == {"implementer", "tester", "documenter"}

\* create_initial_state: every output slot None, no aggregated change.
create_initial_state ==
    [architect_output |-> NoneOut, implementer_output |-> NoneOut,
     tester_output |-> NoneOut, documenter_output |-> NoneOut,
     reviewer_output |-> NoneOut, all_file_changes |-> <<>>,
     current_phase |-> "init"]

NoFinalState == [create_initial_state EXCEPT !.current_phase = "none"]

NoRes == Res("none", "none", "none", "ok", "none")
NoGiven == [goal |-> "none", previous_outputs |-> <<>>]
NoWorkerRes == [raised |-> FALSE, err |-> "none", out |-> NoneOut]

\* --------------------------------------------------------- RunContext

\* RunContext.set_status(status)
set_status(s) ==
    /\ status' = s
    /\ statusHist' = Append(statusHist, s)

\* RunContext.to_dict as written by RunContext.save()
Snapshot(stat, errs, bn, tasks) ==
    [status |-> stat, errors |-> errs, branch_name |-> bn, tasks |-> tasks]

\* RunContext.tasks once Planner.create_plan has run on the tasks of the plan:
\* the to_dict() of each task as it was created; nothing assigns it later.
context_tasks(tasks) ==
    [i \in DOMAIN tasks |-> [id |-> tasks[i].id, status |-> tasks[i].history[1]]]

\* No state.json yet.
NoSnapshot == Snapshot("none", <<>>, NoBranch, <<>>)

\* report.md as far as the run's status and error list go
Report(stat, errs) == [status |-> stat, errors |-> errs]

\* No report.md yet.
NoReport == Report("none", <<>>)

\* RunStatus: member name -> value
RunStatus ==
    [PENDING |-> "pending", PLANNING |-> "planning", EXECUTING |-> "executing",
     COMPLETED |-> "completed", FAILED |-> "failed", ABORTED |-> "aborted"]

\* RunContext.create(repo_path, goal) at the second `timestamp`, with
\* `short_id` the first eight hex digits of the uuid4 drawn; repo_path is a
\* Path object, written [path |-> text].  created_at, updated_at and the
\* timestamp of a log entry are left out.
create(repo_path, g, timestamp, short_id) ==
    [run_id |-> "run_" \o timestamp \o "_" \o short_id,
     repo_path |-> [path |-> repo_path],
     goal |-> g,
     status |-> "PENDING",
     branch_name |-> NoBranch,
     tasks |-> <<>>,
     logs |-> <<>>,
     errors |-> <<>>,
     artifacts |-> {}]

\* RunContext.log(level, message, data): data is None ([none |-> TRUE]) or a
\* dictionary, written as its set of items; a falsy data is not stored.
log(ctx, level, message, data) ==
    LET entry == IF ~data.none /\ data.items # {}
                 THEN [level |-> level, message |-> message, data |-> data.items]
                 ELSE [level |-> level, message |-> message]
    IN [ctx EXCEPT !.logs = Append(@, entry)]

\* RunContext.add_error(error)
add_error(ctx, error) ==
    log([ctx EXCEPT !.errors = Append(@, error)], "ERROR", error, [none |-> TRUE, items |-> {}])

\* RunContext.set_status(status) on a RunContext object; status is a member
\* of RunStatus.
ctx_set_status(ctx, member) ==
    log([ctx EXCEPT !.status = member], "INFO",
        "Status changed to " \o RunStatus[member], [none |-> TRUE, items |-> {}])

\* to_dict that leaves the branch name out of the dictionary
to_dict_WithoutBranch(ctx) ==
    [run_id |-> ctx.run_id,
     repo_path |-> ctx.repo_path.path,
     goal |-> ctx.goal,
     status |-> RunStatus[ctx.status],
     branch_name |-> NoBranch,
     tasks |-> ctx.tasks,
     logs |-> ctx.logs,
     errors |-> ctx.errors,
     artifacts |-> ctx.artifacts]

\* RunContext.to_dict(): what json.dump writes to state.json
to_dict(ctx) ==
    [run_id |-> ctx.run_id,
     repo_path |-> ctx.repo_path.path,
     goal |-> ctx.goal,
     status |-> RunStatus[ctx.status],
     branch_name |-> ctx.branch_name,
     tasks |-> ctx.tasks,
     logs |-> ctx.logs,
     errors |-> ctx.errors,
     artifacts |-> ctx.artifacts]

\* RunContext.save(): runs_dir maps the run ids that have a state.json to its
\* content.
save(runs_dir, ctx) ==
    [r \in DOMAIN runs_dir \cup {ctx.run_id} |->
        IF r = ctx.run_id THEN to_dict(ctx) ELSE runs_dir[r]]

\* RunContext.load(run_id)
load(runs_dir, run_id) ==
    IF run_id \notin DOMAIN runs_dir
    THEN [raised |-> TRUE, class |-> "FileNotFoundError",
          message |-> "Run not found: " \o run_id]
    ELSE LET data == runs_dir[run_id]
         IN [raised |-> FALSE,
             ctx |-> [run_id |-> data.run_id,
                      repo_path |-> [path |-> data.repo_path],
                      goal |-> data.goal,
                      status |-> CHOOSE m \in DOMAIN RunStatus : RunStatus[m] = data.status,
                      branch_name |-> data.branch_name,
                      tasks |-> data.tasks,
                      logs |-> data.logs,
                      errors |-> data.errors,
                      artifacts |-> data.artifacts]]

\* No RunContext object is modelled on its own.
NoLedger ==
    [ctxs |-> <<>>, runs_dir |-> <<>>, call |-> "none", run |-> 0,
     loaded |-> [raised |-> FALSE, pending |-> TRUE]]

\* ------------------------------------------------------------- workflow.py

\* The paths of a change list, each once, in the order they first occur: the
\* key order of the dictionary apply_file_changes builds.
RECURSIVE PathOrder(_)
PathOrder(cs) ==
    IF cs = <<>> THEN <<>>
    ELSE LET r == PathOrder(SubSeq(cs, 1, Len(cs) - 1))
             p == cs[Len(cs)].path
         IN IF \E i \in 1..Len(r) : r[i] = p THEN r ELSE Append(r, p)

LastChange_FirstWins(cs, p) ==
    cs[CHOOSE i \in 1..Len(cs) :
         cs[i].path = p /\ \A j \in 1..(i - 1) : cs[j].path # p]

LastChange(cs, p) ==
    cs[CHOOSE i \in 1..Len(cs) :
         cs[i].path = p /\ \A j \in (i + 1)..Len(cs) : cs[j].path # p]

\* changes_by_path of apply_file_changes, as the list of its values.
changes_by_path(cs) ==
    [i \in 1..Len(PathOrder(cs)) |-> LastChange(cs, PathOrder(cs)[i])]

PathsOf(cs) == {cs[i].path : i \in 1..Len(cs)}

\* Concatenation of the file_changes of a list of [name, out] entries.
RECURSIVE ChangesOf(_)
ChangesOf(prev) ==
    IF prev = <<>> THEN <<>>
    ELSE prev[1].out.file_changes \o ChangesOf(Tail(prev))

Entry(name, out) == [name |-> name, out |-> out]

Present(name, out) == IF out.isNone THEN <<>> ELSE <<Entry(name, out)>>

\* previous_outputs of parallel_agents_node: the architect's output, if any.
parallel_previous_outputs(s) == Present("architect", s.architect_output)

\* previous_outputs of reviewer_node: every output present, in this order.
reviewer_previous_outputs(s) ==
    Present("architect", s.architect_output)
      \o Present("implementer", s.implementer_output)
      \o Present("tester", s.tester_output)
      \o Present("documenter", s.documenter_output)

\* _error_output(agent_name, error)
_error_output(agent_name, error) ==
    Out(FALSE, agent_name \o " failed: " \o error, <<>>, <<error>>)

\* One slot of "Process results" in parallel_agents_node.
process_result(agent_name, r) ==
    IF r.raised THEN _error_output(agent_name, r.err) ELSE r.out

\* ReviewerAgent.execute, given the LLM's result: with no file change of its
\* own the result takes the changes of all previous outputs.
reviewer_execute(result, previous_outputs) ==
    IF result.file_changes = <<>> /\ ChangesOf(previous_outputs) # <<>>
    THEN [result EXCEPT !.file_changes = ChangesOf(previous_outputs)]
    ELSE result

\* The state reviewer_node returns for the reviewer's output.
reviewer_node_state(s, output) ==
    [s EXCEPT !.reviewer_output = output,
              !.all_file_changes =
                  ChangesOf(reviewer_previous_outputs(s)) \o output.file_changes,
              !.current_phase = "complete"]

\* What an agent's LLM call can give back: a result with no file change or one
\* created file, or the failure output _invoke_llm builds when the call errors.
LlmResults(agent) ==
    {Out(TRUE, "ok", <<>>, <<>>)}
      \cup {Out(TRUE, "ok", <<FC(p, "create", agent)>>, <<>>) : p \in Paths}
      \cup {Out(FALSE, "Agent failed: llm", <<>>, <<"llm">>)}

\* ------------------------------------------------- AgentExecutor (applier)

\* The list apply_file_changes works on.
all_changes_to_apply(fs) ==
    IF fs.all_file_changes = <<>> /\ ~fs.reviewer_output.isNone
    THEN fs.reviewer_output.file_changes
    ELSE fs.all_file_changes

\* AgentExecutor._apply_single_change on a working copy w
_apply_single_change(w, change) ==
    IF change.action \in {"create", "modify"}
    THEN [w EXCEPT ![change.path] = change.content]
    ELSE IF change.action = "delete"
    THEN [w EXCEPT ![change.path] = "absent"]
    ELSE w

\* The loop of apply_file_changes over cs; the changes whose path is in
\* failing raise.  Gives the working copy, the paths appended to
\* modified_files and the errors added.
RECURSIVE apply_loop(_, _, _)
apply_loop(w, cs, failing) ==
    IF cs = <<>> THEN [wc |-> w, modified |-> <<>>, errs |-> <<>>]
    ELSE LET c == cs[1] IN
         IF c.path \in failing
         THEN LET r == apply_loop(w, Tail(cs), failing) IN
              [r EXCEPT !.errs = <<"Failed to apply">> \o @]
         ELSE LET r == apply_loop(_apply_single_change(w, c), Tail(cs), failing) IN
              [r EXCEPT !.modified = <<c.path>> \o @]

SeqToSet(q) == {q[i] : i \in 1..Len(q)}

\* ----------------------------------------------------------------- SpecGit

InitGitRepo ==
    /\ branches \in InitialBranchSets
    /\ current \in branches
    /\ originHead \in {"none"} \cup {b \in {"main", "develop"} : b \in branches}
    /\ wc \in [Paths -> {"absent", "orig"}]
    /\ dirty \in SUBSET Paths
    /\ index = {}
    /\ commitLog = {}
    /\ gitRes = NoRes

InitCtx ==
    /\ goal \in Goals
    /\ branch_name = NoBranch
    /\ status = "pending"
    /\ errors = <<>>
    /\ saved = NoSnapshot
    /\ report = NoReport

\* The executor object right after its constructor.
InitExecutor ==
    /\ exc = "none"
    /\ git_ops = FALSE
    /\ plan = <<>>
    /\ ti = 0
    /\ proposals = <<>>
    /\ modified_files = <<>>
    /\ final_state = NoFinalState

\* No git subprocess is modelled on its own.
NoOutcome == [raised |-> FALSE, pending |-> TRUE]
NoProc == [cmd |-> "none", check |-> FALSE, ending |-> "none", done |-> FALSE,
           out |-> NoOutcome]

InitFlowIdle ==
    /\ state = create_initial_state
    /\ st = [a \in Agents |-> "idle"]
    /\ given = [a \in Agents |-> NoGiven]
    /\ res = [w \in Workers \cup {"reviewer"} |-> NoWorkerRes]

InitHist ==
    /\ statusHist = <<>>
    /\ trace = <<>>

InitGit ==
    /\ repoKind = "git"
    /\ InitGitRepo
    /\ wc = [p \in Paths |-> "orig"]
    /\ InitCtx
    /\ goal = "g1"
    /\ driver = "none" /\ dry_run = FALSE /\ llm = TRUE /\ pc = "git"
    /\ InitExecutor
    /\ InitFlowIdle
    /\ proc = NoProc
    /\ ledger = NoLedger
    /\ InitHist

GitFrame == UNCHANGED <<proc, ledger, repoKind, originHead, wc, goal, status, errors, saved, report,
                        runVars, flowVars, histVars>>

GitCreateBranch ==
    /\ pc = "git"
    /\ \E name \in BranchNames : create_branch(name)
    /\ UNCHANGED <<dirty, index, commitLog>>
    /\ GitFrame

GitCheckoutBranch ==
    /\ pc = "git"
    /\ \E name \in BranchNames : checkout_branch(name)
    /\ UNCHANGED <<branches, dirty, index, commitLog, branch_name>>
    /\ GitFrame

GitStageFiles ==
    /\ pc = "git"
    /\ \E files \in SUBSET Paths : stage_files(files)
    /\ UNCHANGED <<branches, current, commitLog, branch_name>>
    /\ GitFrame

GitCommit ==
    /\ pc = "git"
    /\ \E m \in Msgs, allow_empty \in BOOLEAN : commit(m, allow_empty)
    /\ UNCHANGED <<branches, current, dirty, branch_name>>
    /\ GitFrame

\* Someone edits a file of the working copy (the tests do, between calls).
GitEditFile ==
    /\ pc = "git"
    /\ \E p \in Paths : dirty' = dirty \cup {p}
    /\ gitRes' = NoRes
    /\ UNCHANGED <<branches, current, index, commitLog, branch_name>>
    /\ GitFrame

NextGit ==
    \/ GitCreateBranch
    \/ GitCheckoutBranch
    \/ GitStageFiles
    \/ GitCommit
    \/ GitEditFile

SpecGit == InitGit /\ [][NextGit]_vars

\* C1: a commit() made while the current branch is protected raises, whatever
\* the message and allow_empty, and no commit made through commit() is ever on
\* a protected branch.
C1_NoCommitOnProtected ==
    /\ \A c \in commitLog : c.branch \notin PROTECTED_BRANCHES
    /\ (gitRes.op = "commit" /\ gitRes.on \in PROTECTED_BRANCHES)
          => gitRes.outcome = "raise"

\* commit() was refused on a protected branch with changes staged, in a
\* repository where commit() did create a commit on another branch.
C1_Witness ==
    /\ gitRes.op = "commit"
    /\ gitRes.on \in PROTECTED_BRANCHES
    /\ gitRes.err = "protected"
    /\ index # {}
    /\ commitLog # {}

\* C2: create_branch(name) with a protected or an existing name raises and
\* leaves the current branch, the set of branches and the run's branch_name as
\* they were.
C2_CreateBranchRefusal ==
    [][(gitRes'.op = "create_branch"
          /\ (gitRes'.arg \in PROTECTED_BRANCHES \/ gitRes'.arg \in branches))
        => /\ gitRes'.outcome = "raise"
           /\ gitRes'.err \in {"protected", "exists"}
           /\ current' = current
           /\ branches' = branches
           /\ branch_name' = branch_name]_vars

\* create_branch was refused for an existing name while HEAD was on another
\* branch than the default one and branch_name held another name.
C2_Witness ==
    /\ gitRes.op = "create_branch"
    /\ gitRes.err = "exists"
    /\ gitRes.arg \in FeatureNames
    /\ current # get_default_branch
    /\ branch_name \notin {NoBranch, gitRes.arg}

\* ----------------------------------------------------------------- Planner

\* Planner.KEYWORDS
KEYWORDS ==
    [endpoint |-> {"implement", "test", "document"},
     api |-> {"design", "implement", "test", "document"},
     test |-> {"analyze", "implement", "test"},
     refactor |-> {"analyze", "design", "implement", "test"},
     fix |-> {"analyze", "implement", "test"},
     bug |-> {"analyze", "implement", "test"},
     feature |-> {"design", "implement", "test", "document"},
     add |-> {"design", "implement", "test", "document"},
     create |-> {"design", "implement", "test", "document"},
     update |-> {"analyze", "implement", "test"},
     documentation |-> {"analyze", "document"},
     healthcheck |-> {"design", "implement", "test", "document"},
     health |-> {"design", "implement", "test"}]

TASK_TEMPLATES_TestByImplementer ==
    [analyze |-> "architect", design |-> "architect", implement |-> "implementer",
     test |-> "implementer", document |-> "documenter", review |-> "architect",
     validate |-> "tester"]

\* Planner.TASK_TEMPLATES: the role of each task type
TASK_TEMPLATES ==
    [analyze |-> "architect", design |-> "architect", implement |-> "implementer",
     test |-> "tester", document |-> "documenter", review |-> "architect",
     validate |-> "tester"]

\* The spelling of the words goals are made of and of the keywords.
Spell ==
    [endpoint |-> <<"e", "n", "d", "p", "o", "i", "n", "t">>,
     api |-> <<"a", "p", "i">>,
     test |-> <<"t", "e", "s", "t">>,
     refactor |-> <<"r", "e", "f", "a", "c", "t", "o", "r">>,
     fix |-> <<"f", "i", "x">>,
     bug |-> <<"b", "u", "g">>,
     feature |-> <<"f", "e", "a", "t", "u", "r", "e">>,
     add |-> <<"a", "d", "d">>,
     create |-> <<"c", "r", "e", "a", "t", "e">>,
     update |-> <<"u", "p", "d", "a", "t", "e">>,
     documentation |-> <<"d", "o", "c", "u", "m", "e", "n", "t", "a", "t", "i", "o", "n">>,
     healthcheck |-> <<"h", "e", "a", "l", "t", "h", "c", "h", "e", "c", "k">>,
     health |-> <<"h", "e", "a", "l", "t", "h">>,
     Add |-> <<"A", "d", "d">>,
     address |-> <<"a", "d", "d", "r", "e", "s", "s">>,
     latest |-> <<"l", "a", "t", "e", "s", "t">>,
     prefix |-> <<"p", "r", "e", "f", "i", "x">>,
     tidy |-> <<"t", "i", "d", "y">>,
     docs |-> <<"d", "o", "c", "s">>]

\* str.lower() on one character
lower(c) ==
    LET small == [A |-> "a", I |-> "i", P |-> "p", T |-> "t"]
    IN IF c \in DOMAIN small THEN small[c] ELSE c

\* The goal string of a list of words, lower-cased: goal.lower()
RECURSIVE goal_lower(_)
goal_lower(words) ==
    IF words = <<>> THEN <<>>
    ELSE LET w == [i \in 1..Len(Spell[words[1]]) |-> lower(Spell[words[1]][i])]
         IN IF Len(words) = 1 THEN w ELSE w \o <<" ">> \o goal_lower(Tail(words))

\* Python's "keyword in goal_lower": a substring test
keyword_in_goal(k, words) ==
    LET t == goal_lower(words)
        n == Len(Spell[k])
    IN \E i \in 1..(Len(t) - n + 1) : SubSeq(t, i, i + n - 1) = Spell[k]

\* The words of the goals of the runs.
GoalWords == [g1 |-> <<"endpoint">>, g2 |-> <<"tidy">>]

ordered_types ==
    <<"analyze", "design", "implement", "test", "document", "review", "validate">>

default_workflow_WithReview == {"analyze", "design", "implement", "test", "review"}

\* The types _detect_task_types uses when nothing was detected
default_workflow == {"analyze", "design", "implement", "test", "validate"}

_detect_task_types_Sorted(words) ==
    LET found == UNION {KEYWORDS[k] : k \in {k \in DOMAIN KEYWORDS : keyword_in_goal(k, words)}}
        detected_types == IF found = {}
                          THEN {"analyze", "design", "implement", "test", "validate"}
                          ELSE found
    IN SelectSeq(<<"analyze", "design", "document", "implement", "review", "test",
                   "validate">>, LAMBDA t : t \in detected_types)

\* Planner._detect_task_types(goal)
_detect_task_types(words) ==
    LET found == UNION {KEYWORDS[k] : k \in {k \in DOMAIN KEYWORDS : keyword_in_goal(k, words)}}
        detected_types == IF found = {} THEN default_workflow ELSE found
    IN SelectSeq(ordered_types, LAMBDA t : t \in detected_types)

task_id_CountsCalls(i, type) ==
    (IF ti = 0 THEN "task_0" ELSE "task_1")
      \o <<"1", "2", "3", "4", "5", "6", "7">>[i] \o "_" \o type

\* f"task_{i+1:02d}_{task_type}", for the at most seven tasks of a plan
task_id(i, type) ==
    "task_0" \o <<"1", "2", "3", "4", "5", "6", "7">>[i] \o "_" \o type

dependencies_None(prev_task_id) == <<>>

\* [prev_task_id] if prev_task_id else []
dependencies(prev_task_id) == IF prev_task_id = "none" THEN <<>> ELSE <<prev_task_id>>

\* Planner.create_plan(goal): one task per detected type, in order.
create_plan(words) ==
    LET types == _detect_task_types(words) IN
    [i \in 1..Len(types) |->
        [id |-> task_id(i, types[i]),
         type |-> types[i],
         role |-> TASK_TEMPLATES[types[i]],
         dependencies |-> dependencies(IF i = 1 THEN "none"
                                       ELSE task_id(i - 1, types[i - 1])),
         status |-> "pending",
         history |-> <<"pending">>]]

\* get_pending_tasks without the dependency check
get_pending_tasks_AllPending(tasks) ==
    SelectSeq(tasks, LAMBDA t : t.status = "pending")

\* Plan.get_pending_tasks()
get_pending_tasks(tasks) ==
    LET completed_ids ==
            {tasks[i].id : i \in {j \in DOMAIN tasks : tasks[j].status = "completed"}}
    IN SelectSeq(tasks,
                 LAMBDA t : /\ t.status = "pending"
                            /\ \A k \in DOMAIN t.dependencies :
                                 t.dependencies[k] \in completed_ids)

\* ------------------------------------------------------------------- roles

\* RoleProposal
Proposal(role, success, file_changes) ==
    [role |-> role, success |-> success, file_changes |-> file_changes]

\* The file changes a role's execute() can put in a successful proposal.
RoleChanges(role) ==
    IF role = "implementer"
    THEN {<<FC(1, "create", "impl")>>, <<FC(MaxPaths, "modify", "impl")>>}
    ELSE IF role = "documenter"
    THEN {<<>>, <<FC(1, "prepend", "doc")>>}
    ELSE IF role = "tester"
    THEN {<<FC(MaxPaths, "create", "test")>>}
    ELSE {<<>>}

role_execute_writes_WritesProposed(file_changes) == PathsOf(file_changes)

\* The working-copy paths a role's execute() writes while it builds a proposal
\* with these file changes.
role_execute_writes(file_changes) == {}

Exists(w, p) == w[p] # "absent"

\* One iteration of ImplementerRole.apply_changes: the working copy after it
\* and whether the path was appended to the list it returns.
implementer_apply_one(w, c) ==
    IF c.action = "create"
    THEN [wc |-> [w EXCEPT ![c.path] = c.content], hit |-> TRUE]
    ELSE IF c.action = "modify" /\ Exists(w, c.path)
    THEN [wc |-> [w EXCEPT ![c.path] = w[c.path] \o "+" \o c.content], hit |-> TRUE]
    ELSE [wc |-> w, hit |-> FALSE]

\* One iteration of DocumenterRole.apply_documentation
documenter_apply_one(w, c) ==
    IF c.action = "prepend"
    THEN [wc |-> [w EXCEPT ![c.path] =
                    IF Exists(w, c.path) THEN c.content \o "+" \o w[c.path]
                    ELSE c.content],
          hit |-> TRUE]
    ELSE IF c.action = "update" /\ Exists(w, c.path)
    THEN [wc |-> [w EXCEPT ![c.path] = w[c.path] \o "+" \o c.content], hit |-> TRUE]
    ELSE IF c.action = "create"
    THEN [wc |-> [w EXCEPT ![c.path] = c.content], hit |-> TRUE]
    ELSE [wc |-> w, hit |-> FALSE]

\* The changes Executor.apply_changes hands to a role's apply method, in order,
\* each with the index of its proposal.
RECURSIVE applicable(_, _)
applicable(props, k) ==
    IF k > Len(props) THEN <<>>
    ELSE LET q == props[k]
             mine == IF q.success /\ q.file_changes # <<>>
                        /\ q.role \in {"implementer", "documenter"}
                     THEN [i \in 1..Len(q.file_changes) |->
                             [prop |-> k, role |-> q.role, change |-> q.file_changes[i]]]
                     ELSE <<>>
         IN mine \o applicable(props, k + 1)

\* Executor.apply_changes over the first n entries of todo: the working copy
\* and the paths the role methods reported, each with its proposal index.
RECURSIVE apply_prefix(_, _, _)
apply_prefix(w, todo, n) ==
    IF n = 0 THEN [wc |-> w, files |-> <<>>]
    ELSE LET r == apply_prefix(w, todo, n - 1)
             e == todo[n]
             o == IF e.role = "implementer" THEN implementer_apply_one(r.wc, e.change)
                  ELSE documenter_apply_one(r.wc, e.change)
         IN [wc |-> o.wc,
             files |-> IF o.hit THEN Append(r.files, [prop |-> e.prop, path |-> e.change.path])
                       ELSE r.files]

FilePaths(files) == [i \in 1..Len(files) |-> files[i].path]

\* ------------------------------------------------------------- workflow run

\* run_workflow when no node raises: the state after the three nodes, for the
\* architect's result a, the workers' endings wr and the reviewer's LLM result rv.
run_workflow(a, wr, rv) ==
    LET s1 == [create_initial_state EXCEPT !.architect_output = a,
                                           !.current_phase = "architect_done"]
        s2 == [s1 EXCEPT
                 !.implementer_output = process_result("implementer", wr["implementer"]),
                 !.tester_output = process_result("tester", wr["tester"]),
                 !.documenter_output = process_result("documenter", wr["documenter"]),
                 !.current_phase = "parallel_done"]
    IN reviewer_node_state(s2, reviewer_execute(rv, reviewer_previous_outputs(s2)))

Returned(out) == [raised |-> FALSE, err |-> "none", out |-> out]
Raised(err) == [raised |-> TRUE, err |-> err, out |-> NoneOut]

\* The workflow outcomes a whole run is explored with.
RunWorkflowStates ==
    {run_workflow(Out(TRUE, "ok", <<>>, <<>>),
                  [w \in Workers |-> IF w = "implementer" THEN i
                                     ELSE Returned(Out(TRUE, "ok", <<>>, <<>>))],
                  rv) :
       i \in {Returned(Out(TRUE, "ok", <<FC(1, "create", "implementer")>>, <<>>)),
              Raised("boom")},
       rv \in {Out(TRUE, "ok", <<>>, <<>>),
               Out(TRUE, "ok", <<FC(MaxPaths, "delete", "reviewer")>>, <<>>)}}

\* ----------------------------------------------------------------- SpecRun

Linear == {"executor", "cli_run"}
Phased == {"agent", "cli_agents"}
Library == {"executor", "agent"}
Cli == {"cli_run", "cli_agents"}
Drivers == Linear \cup Phased

\* The repository as an earlier run of the same goal, made on the same day,
\* left it: its branch exists and is checked out, with or without a commit.
RepoAfterEarlierRun ==
    /\ \E b \in InitialBranchSets : branches = b \cup {generate_branch_name(goal)}
    /\ current = generate_branch_name(goal)
    /\ originHead \in {"none"} \cup {b \in {"main", "develop"} : b \in branches}
    /\ wc \in [Paths -> {"absent", "orig"}]
    /\ dirty = {}
    /\ index = {}
    /\ commitLog \in {{}, {[branch |-> generate_branch_name(goal)]}}
    /\ gitRes = NoRes

InitRun ==
    /\ InitCtx
    /\ repoKind \in {"missing", "notgit", "git"}
    /\ IF repoKind = "git" THEN (InitGitRepo /\ dirty = {}) \/ RepoAfterEarlierRun
       ELSE /\ branches = {} /\ current = "none" /\ originHead = "none"
            /\ wc \in (IF repoKind = "missing" THEN {[p \in Paths |-> "absent"]}
                       ELSE {[p \in Paths |-> "orig"]})
            /\ dirty = {} /\ index = {} /\ commitLog = {} /\ gitRes = NoRes
    /\ driver \in Drivers
    /\ dry_run \in (IF driver = "cli_run" THEN BOOLEAN ELSE {FALSE})
    /\ llm \in (IF driver \in Phased THEN BOOLEAN ELSE {TRUE})
    /\ pc = IF driver = "cli_agents" THEN "llm_check" ELSE "setup"
    /\ InitExecutor
    /\ InitFlowIdle
    /\ proc = NoProc
    /\ ledger = NoLedger
    /\ InitHist

RunConst == UNCHANGED <<proc, ledger, repoKind, originHead, goal, driver, dry_run, llm, flowVars>>
NoGitCall == gitRes' = NoRes /\ UNCHANGED <<branches, current, index, commitLog>>
Raise(text) == exc' = text /\ pc' = "except"

\* agents_command: check_llm_available() before the run is created
CliLlmCheck ==
    /\ pc = "llm_check"
    /\ pc' = IF llm THEN "setup" ELSE "exit_norun"
    /\ NoGitCall
    /\ UNCHANGED <<wc, dirty, ctxVars, exc, git_ops, plan, ti, proposals,
                   modified_files, final_state, histVars>>
    /\ RunConst

\* Executor.setup / AgentExecutor.setup
Setup ==
    /\ pc = "setup"
    /\ IF driver \in Phased /\ ~llm
       THEN Raise("LLM not available") /\ UNCHANGED git_ops
       ELSE IF repoKind = "missing"
       THEN Raise("Repository path does not exist") /\ UNCHANGED git_ops
       ELSE IF ~validate_repo
       THEN Raise("Not a valid git repository") /\ git_ops' = TRUE
       ELSE /\ git_ops' = TRUE
            /\ pc' = IF driver \in Linear THEN "create_plan" ELSE "create_branch"
            /\ UNCHANGED exc
    /\ NoGitCall
    /\ UNCHANGED <<wc, dirty, ctxVars, plan, ti, proposals, modified_files,
                   final_state, histVars>>
    /\ RunConst

\* Executor.create_plan
CreatePlan ==
    /\ pc = "create_plan"
    /\ set_status("planning")
    /\ plan' = create_plan(GoalWords[goal])
    /\ pc' = IF driver = "cli_run" /\ dry_run THEN "dry_run" ELSE "create_branch"
    /\ NoGitCall
    /\ UNCHANGED <<wc, dirty, branch_name, errors, saved, report, exc, git_ops, ti,
                   proposals, modified_files, final_state, trace>>
    /\ RunConst

\* run_command that ignores --dry-run after the plan
DryRunReturn_GoesOn ==
    /\ pc = "dry_run"
    /\ pc' = "create_branch"
    /\ NoGitCall
    /\ UNCHANGED <<wc, dirty, ctxVars, exc, git_ops, plan, ti, proposals,
                   modified_files, final_state, histVars>>
    /\ RunConst

\* run_command with --dry-run: completed and saved after the plan
DryRunReturn ==
    /\ pc = "dry_run"
    /\ set_status("completed")
    /\ saved' = Snapshot("completed", errors, branch_name, context_tasks(plan))
    /\ pc' = "returned"
    /\ NoGitCall
    /\ UNCHANGED <<wc, dirty, branch_name, errors, report, exc, git_ops, plan, ti,
                   proposals, modified_files, final_state, trace>>
    /\ RunConst

\* create_branch that records the failure and lets the run go on
CreateBranch_GoesOn ==
    /\ pc = "create_branch"
    /\ create_branch(generate_branch_name(goal))
    /\ errors' = IF gitRes'.outcome = "raise"
                 THEN Append(errors, "Failed to create branch") ELSE errors
    /\ pc' = IF driver = "executor" THEN "execute_plan"
             ELSE IF driver = "cli_run" THEN "execute_task"
             ELSE "execute_workflow"
    /\ ti' = IF driver = "cli_run" THEN 1 ELSE ti
    /\ trace' = IF gitRes'.err \in {"protected", "exists"} THEN trace
                ELSE Append(trace, "branch")
    /\ UNCHANGED <<wc, dirty, index, commitLog, status, saved, report, git_ops, plan,
                   proposals, modified_files, final_state, statusHist, exc>>
    /\ RunConst

\* Executor.create_branch / AgentExecutor.create_branch
CreateBranch ==
    /\ pc = "create_branch"
    /\ create_branch(generate_branch_name(goal))
    /\ IF gitRes'.outcome = "raise"
       THEN /\ errors' = Append(errors, "Failed to create branch")
            /\ Raise("GitError")
       ELSE /\ pc' = IF driver = "executor" THEN "execute_plan"
                     ELSE IF driver = "cli_run" THEN "execute_task"
                     ELSE "execute_workflow"
            /\ UNCHANGED <<errors, exc>>
    /\ ti' = IF driver = "cli_run" THEN 1 ELSE ti
    /\ trace' = IF gitRes'.err \in {"protected", "exists"} THEN trace
                ELSE Append(trace, "branch")
    /\ UNCHANGED <<wc, dirty, index, commitLog, status, saved, report, git_ops, plan,
                   proposals, modified_files, final_state, statusHist>>
    /\ RunConst

\* Executor.execute_plan, up to its loop
ExecutePlan ==
    /\ pc = "execute_plan"
    /\ set_status("executing")
    /\ ti' = 1
    /\ pc' = "execute_task"
    /\ NoGitCall
    /\ UNCHANGED <<wc, dirty, branch_name, errors, saved, report, exc, git_ops, plan,
                   proposals, modified_files, final_state, trace>>
    /\ RunConst

\* What role.execute(task) can end with.
RoleOutcomes(role) ==
    {[raised |-> FALSE, proposal |-> Proposal(role, TRUE, f)] : f \in RoleChanges(role)}
      \cup {[raised |-> FALSE, proposal |-> Proposal(role, FALSE, <<>>)],
            [raised |-> TRUE, proposal |-> Proposal(role, FALSE, <<>>)]}

execute_task_statuses_RoleNotFound(raised, success) == <<>>

\* The statuses execute_task gives its task, in order: IN_PROGRESS, then
\* COMPLETED or FAILED.
execute_task_statuses(raised, success) ==
    <<"in_progress", IF ~raised /\ success THEN "completed" ELSE "failed">>

\* Executor.execute_task(plan.tasks[ti]), and the save() execute_plan makes
\* after it; run_command loops over the tasks without that save.
ExecuteTask ==
    /\ pc = "execute_task"
    /\ \E o \in RoleOutcomes(plan[ti].role) :
         LET written == role_execute_writes(o.proposal.file_changes) IN
         /\ LET h == plan[ti].history \o execute_task_statuses(o.raised, o.proposal.success)
            IN plan' = [plan EXCEPT ![ti].status = h[Len(h)], ![ti].history = h]
         /\ proposals' = IF o.raised THEN proposals ELSE Append(proposals, o.proposal)
         /\ errors' = IF o.raised THEN Append(errors, "Task failed") ELSE errors
         /\ wc' = [p \in Paths |-> IF p \in written THEN "role" ELSE wc[p]]
         /\ dirty' = dirty \cup written
    /\ saved' = IF driver = "executor" THEN Snapshot(status, errors', branch_name, context_tasks(plan))
                ELSE saved
    /\ ti' = ti + 1
    /\ pc' = IF ti = Len(plan) THEN "apply_changes" ELSE pc
    /\ trace' = Append(trace, "gen")
    /\ NoGitCall
    /\ UNCHANGED <<branch_name, status, report, exc, git_ops, modified_files,
                   final_state, statusHist>>
    /\ RunConst

\* Executor.apply_changes; failAt > 0: the write of that change raises.
ApplyChanges ==
    /\ pc = "apply_changes"
    /\ driver \in Linear
    /\ LET todo == applicable(proposals, 1) IN
       \E failAt \in 0..Len(todo) :
         LET n == IF failAt = 0 THEN Len(todo) ELSE failAt - 1
             r == apply_prefix(wc, todo, n)
             kept == IF failAt = 0 THEN r.files
                     ELSE SelectSeq(r.files, LAMBDA f : f.prop < todo[failAt].prop)
         IN /\ wc' = r.wc
            /\ dirty' = dirty \cup {p \in Paths : r.wc[p] # wc[p]}
            /\ modified_files' = modified_files \o FilePaths(kept)
            /\ trace' = IF r.wc # wc THEN Append(trace, "apply") ELSE trace
            /\ IF failAt = 0 THEN pc' = "commit_changes" /\ UNCHANGED exc
               ELSE Raise("OSError")
    /\ NoGitCall
    /\ UNCHANGED <<ctxVars, git_ops, plan, ti, proposals, final_state, statusHist>>
    /\ RunConst

\* AgentExecutor.execute_workflow; the architect's and the reviewer's nodes can
\* raise, and then so does workflow.execute.
ExecuteWorkflow ==
    /\ pc = "execute_workflow"
    /\ set_status("executing")
    /\ \/ \E fs \in RunWorkflowStates :
            /\ final_state' = fs
            /\ pc' = "apply_changes"
            /\ UNCHANGED exc
       \/ Raise("workflow") /\ UNCHANGED final_state
    /\ trace' = Append(trace, "gen")
    /\ NoGitCall
    /\ UNCHANGED <<wc, dirty, branch_name, errors, saved, report, git_ops, plan, ti,
                   proposals, modified_files>>
    /\ RunConst

\* AgentExecutor.apply_file_changes; the changes to the paths in failing raise.
ApplyFileChanges ==
    /\ pc = "apply_changes"
    /\ driver \in Phased
    /\ LET cs == changes_by_path(all_changes_to_apply(final_state)) IN
       \E failing \in SUBSET PathsOf(cs) :
         LET r == apply_loop(wc, cs, failing) IN
         /\ wc' = r.wc
         /\ dirty' = dirty \cup {p \in Paths : r.wc[p] # wc[p]}
         /\ modified_files' = modified_files \o r.modified
         /\ errors' = errors \o r.errs
         /\ trace' = IF r.wc # wc THEN Append(trace, "apply") ELSE trace
    /\ pc' = "commit_changes"
    /\ NoGitCall
    /\ UNCHANGED <<branch_name, status, saved, report, exc, git_ops, plan, ti,
                   proposals, final_state, statusHist>>
    /\ RunConst

AfterCommit == IF driver \in Library THEN "complete" ELSE "cli_report"

nothing_to_commit_IgnoresFiles(ops, files) == ~ops

\* The guard of commit_changes' early return
nothing_to_commit(ops, files) == ~ops \/ files = <<>>

\* commit_changes, up to and including its stage_files call
CommitChanges ==
    /\ pc = "commit_changes"
    /\ IF nothing_to_commit(git_ops, modified_files)
       THEN /\ pc' = AfterCommit
            /\ gitRes' = NoRes
            /\ UNCHANGED <<dirty, index, errors, trace>>
       ELSE /\ stage_files(SeqToSet(modified_files))
            /\ IF gitRes'.outcome = "raise"
               THEN /\ errors' = Append(errors, "Commit failed")
                    /\ pc' = AfterCommit
                    /\ UNCHANGED trace
               ELSE /\ pc' = "commit_git"
                    /\ trace' = Append(trace, "stage")
                    /\ UNCHANGED errors
    /\ UNCHANGED <<branches, current, commitLog, wc, branch_name, status, saved, report,
                   exc, git_ops, plan, ti, proposals, modified_files, final_state,
                   statusHist>>
    /\ RunConst

\* commit_changes, from its commit call on
CommitGit ==
    /\ pc = "commit_git"
    /\ \E m \in Msgs : commit(m, FALSE)
    /\ IF gitRes'.outcome = "raise"
       THEN errors' = Append(errors, "Commit failed") /\ UNCHANGED trace
       ELSE /\ trace' = IF gitRes'.outcome = "ok" THEN Append(trace, "commit") ELSE trace
            /\ UNCHANGED errors
    /\ pc' = AfterCommit
    /\ UNCHANGED <<branches, current, dirty, wc, branch_name, status, saved, report,
                   exc, git_ops, plan, ti, proposals, modified_files, final_state,
                   statusHist>>
    /\ RunConst

\* GitOps.get_status() raises GitError: git status exits non-zero outside a
\* working copy, and can fail or time out inside one.
get_status_raises(ok) == repoKind # "git" \/ ~ok

\* generate_report raises: Executor._generate_checklist calls get_status()
\* outside any try when git_ops is set; AgentExecutor.generate_report makes no
\* git call.
generate_report_raises(ok) ==
    driver \in Linear /\ git_ops /\ get_status_raises(ok)

\* Executor.run / AgentExecutor.run after commit_changes: COMPLETED, report, save
Complete ==
    /\ pc = "complete"
    /\ set_status("completed")
    /\ \E ok \in BOOLEAN :
         IF generate_report_raises(ok)
         THEN Raise("GitError") /\ UNCHANGED <<report, saved>>
         ELSE /\ report' = Report("completed", errors)
              /\ saved' = Snapshot("completed", errors, branch_name, context_tasks(plan))
              /\ pc' = "returned"
              /\ UNCHANGED exc
    /\ NoGitCall
    /\ UNCHANGED <<wc, dirty, branch_name, errors, git_ops, plan, ti, proposals,
                   modified_files, final_state, trace>>
    /\ RunConst

\* The except clause of Executor.run / AgentExecutor.run: FAILED, add_error,
\* report, save, re-raise.  When generate_report raises the handler is left
\* there.
Except ==
    /\ pc = "except"
    /\ driver \in Library
    /\ set_status("failed")
    /\ errors' = Append(errors, exc)
    /\ \E ok \in BOOLEAN :
         IF generate_report_raises(ok)
         THEN pc' = "crashed" /\ UNCHANGED <<report, saved>>
         ELSE /\ report' = Report("failed", errors')
              /\ saved' = Snapshot("failed", errors', branch_name, context_tasks(plan))
              /\ pc' = "raised"
    /\ NoGitCall
    /\ UNCHANGED <<wc, dirty, branch_name, exc, git_ops, plan, ti, proposals,
                   modified_files, final_state, trace>>
    /\ RunConst

\* run_command / agents_command after commit_changes: report, COMPLETED, save
CliReport ==
    /\ pc = "cli_report"
    /\ \E ok \in BOOLEAN :
         IF generate_report_raises(ok)
         THEN Raise("GitError") /\ UNCHANGED <<report, saved, status, statusHist>>
         ELSE /\ report' = Report(status, errors)
              /\ set_status("completed")
              /\ saved' = Snapshot("completed", errors, branch_name, context_tasks(plan))
              /\ pc' = "returned"
              /\ UNCHANGED exc
    /\ NoGitCall
    /\ UNCHANGED <<wc, dirty, branch_name, errors, git_ops, plan, ti, proposals,
                   modified_files, final_state, trace>>
    /\ RunConst

\* The except clause of run_command / agents_command: FAILED, add_error, save
CliExcept ==
    /\ pc = "except"
    /\ driver \in Cli
    /\ set_status("failed")
    /\ errors' = Append(errors, exc)
    /\ saved' = Snapshot("failed", errors', branch_name, context_tasks(plan))
    /\ pc' = "exit1"
    /\ NoGitCall
    /\ UNCHANGED <<wc, dirty, branch_name, report, exc, git_ops, plan, ti, proposals,
                   modified_files, final_state, trace>>
    /\ RunConst

NextRun ==
    \/ CliLlmCheck
    \/ Setup
    \/ CreatePlan
    \/ DryRunReturn
    \/ CreateBranch
    \/ ExecutePlan
    \/ ExecuteTask
    \/ ApplyChanges
    \/ ExecuteWorkflow
    \/ ApplyFileChanges
    \/ CommitChanges
    \/ CommitGit
    \/ Complete
    \/ Except
    \/ CliReport
    \/ CliExcept

SpecRun == InitRun /\ [][NextRun]_vars

\* The driver is over: it returned, raised, or exited.
Ended == pc \in {"returned", "raised", "crashed", "exit1", "exit_norun"}

\* The order the statuses are meant to be passed in.
StatusRank ==
    [pending |-> 0, planning |-> 1, executing |-> 2,
     completed |-> 3, failed |-> 3, aborted |-> 3]

TerminalStatuses == {"completed", "failed", "aborted"}

\* C3: in every run the status only moves forward (Pending, Planning,
\* Executing, then a terminal status): no set_status call sets an earlier
\* status or follows a terminal one, and a run that was created ends with a
\* terminal status set exactly once.
C3_StatusForwardOnly ==
    LET h == <<"pending">> \o statusHist IN
    /\ \A i \in 1..Len(h) : \A j \in 1..Len(h) :
         i < j => /\ StatusRank[h[i]] <= StatusRank[h[j]]
                  /\ h[i] \notin TerminalStatuses
    /\ (Ended /\ pc # "exit_norun") => h[Len(h)] \in TerminalStatuses

\* C4: a run of Executor.run or AgentExecutor.run that is over has a saved
\* state whose status is the run's terminal status, a report file, and its
\* whole error list saved.
C4_RunEndsPersistedAndReported ==
    (driver \in Library /\ Ended)
      => /\ status \in {"completed", "failed"}
         /\ saved.status = status
         /\ saved.errors = errors
         /\ report.status # "none"

\* The error setup raises, by driver and repository.
SetupErrorText ==
    IF driver \in Phased /\ ~llm THEN "LLM not available"
    ELSE IF repoKind = "missing" THEN "Repository path does not exist"
    ELSE "Not a valid git repository"

next_node_ReviewerBeforeWorkers(node) ==
    IF node = "architect" THEN "reviewer"
    ELSE IF node = "reviewer" THEN "parallel_agents"
    ELSE "END"

\* The node run_workflow awaits after this one (the edges of create_workflow).
next_node(node) ==
    IF node = "architect" THEN "parallel_agents"
    ELSE IF node = "parallel_agents" THEN "reviewer"
    ELSE "END"

\* The coroutines in the order asyncio.gather is given them: each is first
\* run in that order, up to its LLM call.
GatherOrder == <<"implementer", "tester", "documenter">>

Position(w) == CHOOSE i \in 1..Len(GatherOrder) : GatherOrder[i] = w

WorkerInput_SeesSiblings(w) ==
    [goal |-> goal,
     previous_outputs |->
        parallel_previous_outputs(state)
          \o SelectSeq([i \in 1..Len(GatherOrder) |->
                          Entry(GatherOrder[i], res[GatherOrder[i]].out)],
                       LAMBDA e : e.name # w /\ st[e.name] = "done"
                                  /\ ~res[e.name].raised)]

\* The arguments parallel_agents_node calls a worker's execute() with (the
\* repository context, the same for all, is left out).
WorkerInput(w) ==
    [goal |-> goal, previous_outputs |-> parallel_previous_outputs(state)]

gather_done_FirstException(stv, resv) ==
    \/ \A w \in Workers : stv[w] = "done"
    \/ \E w \in Workers : stv[w] = "done" /\ resv[w].raised

\* asyncio.gather(..., return_exceptions=True) returns: when every awaitable
\* has finished, by returning or by raising.
gather_done(stv, resv) == \A w \in Workers : stv[w] = "done"

\* What a worker's execute() can end with: an LLM result, the failure output
\* of _invoke_llm, or an exception raised before the LLM call.
WorkerEndings(w) ==
    {Returned(o) : o \in LlmResults(w)} \cup {Raised("boom")}

InitFlow ==
    /\ repoKind = "git"
    /\ goal = "g1"
    /\ branches = {"main", generate_branch_name(goal)}
    /\ current = generate_branch_name(goal)
    /\ originHead = "none"
    /\ wc \in [Paths -> {"absent", "orig"}]
    /\ dirty = {} /\ index = {} /\ commitLog = {} /\ gitRes = NoRes
    /\ branch_name = generate_branch_name(goal)
    /\ status = "executing"
    /\ errors = <<>> /\ saved = NoSnapshot /\ report = NoReport
    /\ driver = "agent" /\ dry_run = FALSE /\ llm = TRUE
    /\ pc = "architect"
    /\ exc = "none" /\ git_ops = TRUE
    /\ plan = <<>> /\ ti = 0 /\ proposals = <<>> /\ modified_files = <<>>
    /\ final_state = NoFinalState
    /\ InitFlowIdle
    /\ proc = NoProc
    /\ ledger = NoLedger
    /\ statusHist = <<"executing">>
    /\ trace = <<"branch">>

FlowFrame == UNCHANGED <<proc, ledger, gitVars, ctxVars, driver, dry_run, llm, git_ops, plan, ti,
                         proposals, modified_files, statusHist>>

\* architect_node calls agent.execute
ArchitectStart ==
    /\ pc = "architect"
    /\ st["architect"] = "idle"
    /\ st' = [st EXCEPT !["architect"] = "running"]
    /\ given' = [given EXCEPT !["architect"] = [goal |-> goal, previous_outputs |-> <<>>]]
    /\ UNCHANGED <<state, res, pc, exc, final_state, trace>>
    /\ FlowFrame

\* architect_node: agent.execute ends; an exception leaves run_workflow
ArchitectFinish ==
    /\ pc = "architect"
    /\ st["architect"] = "running"
    /\ \/ \E o \in LlmResults("architect") :
            /\ state' = [state EXCEPT !.architect_output = o,
                                      !.current_phase = "architect_done"]
            /\ st' = [st EXCEPT !["architect"] = "done"]
            /\ pc' = next_node("architect")
            /\ UNCHANGED exc
       \/ /\ st' = [st EXCEPT !["architect"] = "raised"]
          /\ pc' = "flow_raised"
          /\ exc' = "workflow"
          /\ UNCHANGED state
    /\ UNCHANGED <<given, res, final_state, trace>>
    /\ FlowFrame

\* parallel_agents_node: a worker's coroutine is first run
WorkerStart(w) ==
    /\ pc = "parallel_agents"
    /\ st[w] = "idle"
    /\ \A v \in Workers : Position(v) < Position(w) => st[v] # "idle"
    /\ st' = [st EXCEPT ![w] = "running"]
    /\ given' = [given EXCEPT ![w] = WorkerInput(w)]
    /\ UNCHANGED <<state, res, pc, exc, final_state, trace>>
    /\ FlowFrame

\* parallel_agents_node: a worker's coroutine ends
WorkerFinish(w) ==
    /\ pc = "parallel_agents"
    /\ st[w] = "running"
    /\ \E r \in WorkerEndings(w) : res' = [res EXCEPT ![w] = r]
    /\ st' = [st EXCEPT ![w] = "done"]
    /\ UNCHANGED <<state, given, pc, exc, final_state, trace>>
    /\ FlowFrame

\* parallel_agents_node: gather returns and the slots are filled
Join ==
    /\ pc = "parallel_agents"
    /\ gather_done(st, res)
    /\ state' = [state EXCEPT
                   !.implementer_output = process_result("implementer", res["implementer"]),
                   !.tester_output = process_result("tester", res["tester"]),
                   !.documenter_output = process_result("documenter", res["documenter"]),
                   !.current_phase = "parallel_done"]
    /\ pc' = next_node("parallel_agents")
    /\ UNCHANGED <<st, given, res, exc, final_state, trace>>
    /\ FlowFrame

\* reviewer_node calls agent.execute
ReviewerStart ==
    /\ pc = "reviewer"
    /\ st["reviewer"] = "idle"
    /\ st' = [st EXCEPT !["reviewer"] = "running"]
    /\ given' = [given EXCEPT !["reviewer"] =
                   [goal |-> goal, previous_outputs |-> reviewer_previous_outputs(state)]]
    /\ UNCHANGED <<state, res, pc, exc, final_state, trace>>
    /\ FlowFrame

\* reviewer_node: agent.execute ends and the node aggregates
ReviewerFinish ==
    /\ pc = "reviewer"
    /\ st["reviewer"] = "running"
    /\ \/ \E rv \in LlmResults("reviewer") :
            /\ state' = reviewer_node_state(
                          state, reviewer_execute(rv, given["reviewer"].previous_outputs))
            /\ res' = [res EXCEPT !["reviewer"] = Returned(rv)]
            /\ st' = [st EXCEPT !["reviewer"] = "done"]
            /\ pc' = next_node("reviewer")
            /\ UNCHANGED exc
       \/ /\ st' = [st EXCEPT !["reviewer"] = "raised"]
          /\ res' = [res EXCEPT !["reviewer"] = Raised("boom")]
          /\ pc' = "flow_raised"
          /\ exc' = "workflow"
          /\ UNCHANGED state
    /\ UNCHANGED <<given, final_state, trace>>
    /\ FlowFrame

\* execute_workflow: workflow.execute returned; final_state is kept
FlowReturn ==
    /\ pc = "END"
    /\ final_state' = state
    /\ pc' = "apply_changes"
    /\ trace' = Append(trace, "gen")
    /\ UNCHANGED <<state, st, given, res, exc>>
    /\ FlowFrame

NextFlow ==
    \/ ArchitectStart
    \/ ArchitectFinish
    \/ \E w \in Workers : WorkerStart(w)
    \/ \E w \in Workers : WorkerFinish(w)
    \/ Join
    \/ ReviewerStart
    \/ ReviewerFinish
    \/ FlowReturn
    \/ ApplyFileChanges

SpecFlow == InitFlow /\ [][NextFlow]_vars

\* The AgentState slot of a phase-two worker.
Slot(s, w) ==
    IF w = "implementer" THEN s.implementer_output
    ELSE IF w = "tester" THEN s.tester_output
    ELSE s.documenter_output

\* C7: no phase-two worker has started unless the architect's invocation is
\* complete, and the reviewer has not started unless all three workers are
\* complete; among the three workers no order is imposed.
C7_PhaseOrder ==
    /\ \A w \in Workers : st[w] # "idle" => st["architect"] = "done"
    /\ st["reviewer"] # "idle" => \A w \in Workers : st[w] = "done"

\* The reviewer runs after all three workers ended, the last one given to
\* gather having ended by raising.
C7_Witness ==
    /\ st["architect"] = "done"
    /\ \A w \in Workers : st[w] = "done"
    /\ res["documenter"].raised
    /\ st["reviewer"] = "running"

\* C8: whatever subset of the workers raises, the join of phase two returns
\* only once all three workers have ended, the state then holds one output per
\* worker in that worker's slot (for a worker that raised: success false with
\* the error text; otherwise what the worker returned), no exception of a
\* worker leaves the workflow, and the reviewer's node is what runs next.
C8_JoinWaitsForAll ==
    /\ state.current_phase \in {"parallel_done", "complete"}
         => \A w \in Workers :
              /\ st[w] = "done"
              /\ ~Slot(state, w).isNone
              /\ Slot(state, w) =
                   IF res[w].raised
                   THEN Out(FALSE, w \o " failed: " \o res[w].err, <<>>, <<res[w].err>>)
                   ELSE res[w].out
    /\ pc = "flow_raised" => st["architect"] = "raised" \/ st["reviewer"] = "raised"
    /\ (state.current_phase = "parallel_done" /\ st["reviewer"] = "idle")
         => pc = "reviewer" /\ ENABLED ReviewerStart

\* Exactly one worker raised, the join filled the three slots and the reviewer
\* is running.
C8_Witness ==
    /\ state.current_phase = "parallel_done"
    /\ res["implementer"].raised
    /\ ~res["tester"].raised /\ ~res["documenter"].raised
    /\ ~state.implementer_output.success
    /\ state.tester_output.success /\ state.documenter_output.success
    /\ st["reviewer"] = "running"

C10_ReviewerAuthoritative ==
    (pc = "commit_changes" /\ driver \in Phased
       /\ final_state.reviewer_output.file_changes # <<>>)
      => SeqToSet(modified_files) \subseteq PathsOf(final_state.reviewer_output.file_changes)

\* The file changes of the four upstream outputs of a final state, in the
\* order architect, implementer, tester, documenter.
UpstreamChanges(fs) ==
    fs.architect_output.file_changes \o fs.implementer_output.file_changes
      \o fs.tester_output.file_changes \o fs.documenter_output.file_changes

\* The change of cs for path p that no later change of cs for p follows.
FinalChangeFor(cs, p) ==
    LET last == CHOOSE i \in 1..Len(cs) :
                  cs[i].path = p /\ \A j \in 1..Len(cs) : cs[j].path = p => j <= i
    IN cs[last]

NoDuplicates(q) == \A i \in 1..Len(q) : \A j \in 1..Len(q) : q[i] = q[j] => i = j

\* C11: when the reviewer's own LLM result has no file change, the step that
\* applies the changes attempts exactly one change for every path of the
\* upstream file changes (architect, implementer, tester, documenter) and no
\* other path, and an applied path gets the content of the last upstream change
\* for it.
C11_FallbackToUpstreamUnion ==
    [][(pc = "apply_changes" /\ pc' = "commit_changes" /\ driver \in Phased
          /\ ~res["reviewer"].raised /\ res["reviewer"].out.file_changes = <<>>)
        => LET U == UpstreamChanges(final_state)
               applied == SeqToSet(modified_files')
           IN /\ applied \subseteq PathsOf(U)
              /\ NoDuplicates(modified_files')
              /\ Len(modified_files') + (Len(errors') - Len(errors))
                   = Cardinality(PathsOf(U))
              /\ \A p \in Paths :
                   wc'[p] = IF p \in applied THEN FinalChangeFor(U, p).content
                            ELSE wc[p]]_vars

\* The reviewer's LLM result had no file change, the implementer and the
\* documenter both proposed path 1, and the documenter's content was applied.
C11_Witness ==
    /\ pc = "commit_changes"
    /\ st["reviewer"] = "done"
    /\ res["reviewer"].out.file_changes = <<>>
    /\ PathsOf(final_state.implementer_output.file_changes) = {1}
    /\ PathsOf(final_state.documenter_output.file_changes) = {1}
    /\ modified_files = <<1>>
    /\ wc[1] = "documenter"

\* The effect on path p of the single change e of the flattened sequence: the
\* role method of e's proposal in Linear mode, _apply_single_change in Phased.
SingleEffect(w, e, p) ==
    IF e.role = "implementer" THEN implementer_apply_one(w, e.change).wc[p]
    ELSE IF e.role = "documenter" THEN documenter_apply_one(w, e.change).wc[p]
    ELSE _apply_single_change(w, e.change)[p]

\* The flattened sequence an aggregation pass works on, each change with the
\* role whose method applies it ("agent": AgentExecutor itself).
Flattened ==
    IF driver \in Linear THEN applicable(proposals, 1)
    ELSE LET cs == all_changes_to_apply(final_state)
         IN [i \in 1..Len(cs) |-> [prop |-> 0, role |-> "agent", change |-> cs[i]]]

LastFor(todo, p) ==
    todo[CHOOSE i \in 1..Len(todo) :
           todo[i].change.path = p /\ \A j \in (i + 1)..Len(todo) : todo[j].change.path # p]

\* C12: in one pass of the applier, Linear or Phased, at most one change per
\* path is applied, it is the last change for that path in the flattened
\* sequence, and the returned path list contains no path twice.
C12_OneChangePerPath ==
    [][(pc = "apply_changes" /\ pc' = "commit_changes")
        => /\ NoDuplicates(modified_files')
           /\ \A p \in {Flattened[i].change.path : i \in 1..Len(Flattened)} :
                 wc'[p] \in {wc[p], SingleEffect(wc, LastFor(Flattened, p), p)}]_vars

\* The entries of the flattened sequence that change path p
ChangesFor(todo, p) == SelectSeq(todo, LAMBDA e : e.change.path = p)

\* C13: for a path with one surviving change whose application did not raise,
\* the file after the pass is what the action table says for the file before
\* it: create writes the content; modify overwrites or creates; delete removes
\* or does nothing; prepend puts the content before the existing content or
\* creates the file.
C13_ActionTable ==
    [][(pc = "apply_changes" /\ pc' = "commit_changes")
        => \A p \in Paths :
             (/\ Len(ChangesFor(Flattened, p)) = 1
              /\ (driver \in Phased => p \in SeqToSet(modified_files')))
             => LET c == ChangesFor(Flattened, p)[1].change
                IN wc'[p] = CASE c.action \in {"create", "modify"} -> c.content
                              [] c.action = "delete" -> "absent"
                              [] c.action = "prepend" ->
                                   IF Exists(wc, p) THEN c.content \o "+" \o wc[p]
                                   ELSE c.content
                              [] OTHER -> wc[p]]_vars

\* C14: the list the Phased applier returns, which commit_changes stages,
\* holds exactly the paths whose file the pass changed in the working copy.
C14_ReturnedPathsAreChangedPaths ==
    [][(pc = "apply_changes" /\ pc' = "commit_changes" /\ driver \in Phased)
        => SeqToSet(modified_files') = {p \in Paths : wc'[p] # wc[p]}]_vars

\* C15: in both modes the applier's pass ends with the run going on to the
\* commit step, never with an exception: a change that raises costs an entry
\* in the error list, its path is not reported and the others are attempted.
C15_ApplyFailureDoesNotAbort ==
    [][(pc = "apply_changes")
        => /\ pc' = "commit_changes"
           /\ exc' = exc
           /\ Cardinality(SeqToSet(modified_files')) + (Len(errors') - Len(errors))
                 >= Cardinality({p \in Paths : wc'[p] # wc[p]})]_vars

\* C16: execute_plan invokes the tasks one after the other whatever the
\* earlier ones did, and a task that fails (its role returns success=false or
\* raises) ends Failed with one more entry in the run's error list.
C16_TaskFailureRecorded ==
    [][(pc = "execute_task" /\ driver = "executor")
        => /\ ti' = ti + 1
           /\ pc' = (IF ti = Len(plan) THEN "apply_changes" ELSE "execute_task")
           /\ plan'[ti].status \in {"completed", "failed"}
           /\ \A k \in 1..Len(plan) : k # ti => plan'[k] = plan[k]
           /\ (plan'[ti].status = "failed" => Len(errors') = Len(errors) + 1)]_vars

\* C17: in Linear mode, whichever entry point drives the plan, the step that
\* executes a task leaves the saved run state equal to the run's state, before
\* the next task starts.
C17_SavedAfterEachTask ==
    [][(pc = "execute_task" /\ driver \in Linear)
        => saved' = Snapshot(status', errors', branch_name', context_tasks(plan'))]_vars

TaskTypes == {"analyze", "design", "implement", "test", "document", "review", "validate"}
RoleNames == {"architect", "implementer", "tester", "documenter"}

RoleProposal(role, success, summary, file_changes, errs) ==
    [role |-> role, success |-> success, summary |-> summary,
     file_changes |-> file_changes, errors |-> errs]

\* The branch each execute() takes for a task type: the method it hands the
\* task to, or "reject" for the RoleProposal it builds itself.
architect_execute(type) ==
    IF type = "analyze" THEN "_analyze"
    ELSE IF type = "design" THEN "_design"
    ELSE IF type = "review" THEN "_review"
    ELSE "reject"

implementer_execute_AcceptsAll(type) == "_implement"

implementer_execute(type) == IF type # "implement" THEN "reject" ELSE "_implement"

tester_execute(type) ==
    IF type = "test" THEN "_test"
    ELSE IF type = "validate" THEN "_validate"
    ELSE "reject"

documenter_execute(type) == IF type # "document" THEN "reject" ELSE "_document"

role_execute(role, type) ==
    IF role = "architect" THEN architect_execute(type)
    ELSE IF role = "implementer" THEN implementer_execute(type)
    ELSE IF role = "tester" THEN tester_execute(type)
    ELSE documenter_execute(type)

\* The RoleProposal of the rejecting branch
Rejection(role, type) ==
    RoleProposal(role, FALSE,
                 IF role = "architect" THEN "Unknown task type" ELSE "Wrong task type",
                 <<>>, <<"Unsupported task type: " \o type>>)

\* What the method a task is handed to can return; _validate alone can return
\* success=false, and then with no entry in errors.
MethodResults(role, method) ==
    {RoleProposal(role, TRUE, method, f, <<>>) : f \in RoleChanges(role)}
      \cup (IF method = "_validate" THEN {RoleProposal(role, FALSE, method, <<>>, <<>>)}
            ELSE {})

InitRole ==
    /\ repoKind = "git"
    /\ InitGitRepo
    /\ branches = {"main"}
    /\ originHead = "none"
    /\ dirty = {}
    /\ InitCtx
    /\ goal = "g1"
    /\ driver = "none" /\ dry_run = FALSE /\ llm = TRUE
    /\ pc = "role_execute"
    /\ exc = "none" /\ git_ops = TRUE
    /\ plan \in {<<[type |-> t, role |-> r, status |-> "pending"]>> :
                   t \in TaskTypes, r \in RoleNames}
    /\ ti = 1
    /\ proposals = <<>> /\ modified_files = <<>>
    /\ final_state = NoFinalState
    /\ InitFlowIdle
    /\ proc = NoProc
    /\ ledger = NoLedger
    /\ InitHist

RoleFrame == UNCHANGED <<proc, ledger, gitVars, ctxVars, driver, dry_run, llm, git_ops, plan,
                         modified_files, final_state, flowVars, statusHist>>

\* role.execute(task) takes its rejecting branch
RoleReject ==
    /\ pc = "role_execute"
    /\ role_execute(plan[ti].role, plan[ti].type) = "reject"
    /\ proposals' = Append(proposals, Rejection(plan[ti].role, plan[ti].type))
    /\ pc' = "role_returned"
    /\ ti' = ti + 1
    /\ UNCHANGED <<exc, trace>>
    /\ RoleFrame

\* role.execute(task) hands the task to one of the role's methods, which
\* returns a proposal or raises.
RoleWork ==
    /\ pc = "role_execute"
    /\ role_execute(plan[ti].role, plan[ti].type) # "reject"
    /\ LET method == role_execute(plan[ti].role, plan[ti].type) IN
       /\ trace' = Append(trace, method)
       /\ \/ \E q \in MethodResults(plan[ti].role, method) :
               /\ proposals' = Append(proposals, q)
               /\ pc' = "role_returned"
               /\ UNCHANGED exc
          \/ /\ pc' = "role_raised"
             /\ exc' = "boom"
             /\ UNCHANGED proposals
    /\ ti' = ti + 1
    /\ RoleFrame

NextRole == RoleReject \/ RoleWork

SpecRole == InitRole /\ [][NextRole]_vars

\* C19: for every role and every task type outside the role's responsibility
\* set (architect: analyze, design, review; implementer: implement; tester:
\* test, validate; documenter: document), execute returns a proposal with
\* success=false, an error list that names the type, and no file changes,
\* and none of the role's methods has run.
C19_RoleRejectsForeignTaskType ==
    [][(/\ pc = "role_execute"
        /\ plan[ti].type \notin
              (CASE plan[ti].role = "architect" -> {"analyze", "design", "review"}
                 [] plan[ti].role = "implementer" -> {"implement"}
                 [] plan[ti].role = "tester" -> {"test", "validate"}
                 [] plan[ti].role = "documenter" -> {"document"}))
        => /\ pc' = "role_returned"
           /\ Len(proposals') = Len(proposals) + 1
           /\ LET q == proposals'[Len(proposals')] IN
                /\ q.role = plan[ti].role
                /\ ~q.success
                /\ q.errors = <<"Unsupported task type: " \o plan[ti].type>>
                /\ q.file_changes = <<>>
           /\ trace' = trace
           /\ wc' = wc]_vars

C19_Witness ==
    /\ pc = "role_returned"
    /\ plan[1].role = "implementer" /\ plan[1].type = "test"
    /\ Len(proposals) = 1 /\ ~proposals[1].success
    /\ proposals[1].errors = <<"Unsupported task type: test">>
    /\ trace = <<>>

\* C20: when the stage or the commit call of commit_changes does not succeed
\* (non-zero exit, timeout, refusal on a protected branch), one entry is added
\* to the run's error list, nothing is put in the commit log, and the run goes
\* on to the step after commit_changes without an exception.
C20_CommitFailureRecorded ==
    [][(pc \in {"commit_changes", "commit_git"} /\ gitRes'.outcome \in {"fail", "raise"})
        => /\ errors' = Append(errors, "Commit failed")
           /\ commitLog' = commitLog
           /\ pc' = AfterCommit
           /\ exc' = exc]_vars

\* C21: with an empty list of modified files commit_changes takes its early
\* return: no staging and no commit call is made, nothing is added to the
\* error list, and branches, index and commit log are as before.
C21_NoCommitWithoutFiles ==
    [][(pc = "commit_changes" /\ modified_files = <<>>)
        => /\ gitRes' = NoRes
           /\ pc' = AfterCommit
           /\ trace' = trace
           /\ errors' = errors
           /\ UNCHANGED <<branches, current, index, commitLog, dirty, wc>>]_vars

C21_Witness ==
    /\ pc = AfterCommit
    /\ git_ops
    /\ modified_files = <<>>
    /\ proposals # <<>>
    /\ gitRes = NoRes
    /\ index = {} /\ commitLog = {}

\* ----------------------------------------------------------------- SpecCmd
\* GitOps._run_git on its own: every git command a GitOps method issues,
\* with the check flag the method passes, and every way the process can end.

\* GitError(message, returncode, stderr) and GitResult
GitError(message, returncode, stderr) ==
    [raised |-> TRUE, class |-> "GitError", message |-> message,
     returncode |-> returncode, stderr |-> stderr]

GitResult(success, stderr, returncode, command) ==
    [raised |-> FALSE, success |-> success, stderr |-> stderr,
     returncode |-> returncode, command |-> command]

\* The _run_git calls of GitOps: args and the check flag of the call
GitCommands ==
    {[cmd |-> "rev-parse --git-dir", check |-> FALSE],
     [cmd |-> "rev-parse --abbrev-ref HEAD", check |-> TRUE],
     [cmd |-> "symbolic-ref", check |-> FALSE],
     [cmd |-> "rev-parse --verify", check |-> FALSE],
     [cmd |-> "checkout", check |-> TRUE],
     [cmd |-> "pull --ff-only", check |-> FALSE],
     [cmd |-> "checkout -b", check |-> TRUE],
     [cmd |-> "status --porcelain", check |-> TRUE],
     [cmd |-> "add", check |-> TRUE],
     [cmd |-> "add -A", check |-> TRUE],
     [cmd |-> "commit", check |-> FALSE],
     [cmd |-> "diff", check |-> TRUE],
     [cmd |-> "log", check |-> TRUE],
     [cmd |-> "ls-tree", check |-> TRUE],
     [cmd |-> "show", check |-> TRUE]}

ExitCodes == {0, 1, 128}

\* How subprocess.run ends: TimeoutExpired, or an exit status with stderr
ProcessEndings ==
    {[timeout |-> TRUE, returncode |-> 0, stderr |-> ""]}
      \cup {[timeout |-> FALSE, returncode |-> c, stderr |-> e] :
               c \in ExitCodes, e \in {"", "fatal"}}

_run_git_NeverChecks(args, check, e) ==
    IF e.timeout THEN GitError("Git command timed out: " \o args, 1, "")
    ELSE GitResult(e.returncode = 0, e.stderr, e.returncode, args)

\* GitOps._run_git(args, check) when the process ends as e
_run_git(args, check, e) ==
    IF e.timeout THEN GitError("Git command timed out: " \o args, 1, "")
    ELSE LET git_result == GitResult(e.returncode = 0, e.stderr, e.returncode, args)
         IN IF check /\ ~git_result.success
            THEN GitError("Git command failed: " \o args \o "/" \o e.stderr,
                          e.returncode, e.stderr)
            ELSE git_result

InitCmd ==
    /\ repoKind = "git"
    /\ branches = {"main"} /\ current = "main" /\ originHead = "none"
    /\ wc = [p \in Paths |-> "orig"]
    /\ dirty = {} /\ index = {} /\ commitLog = {} /\ gitRes = NoRes
    /\ InitCtx
    /\ goal = "g1"
    /\ driver = "none" /\ dry_run = FALSE /\ llm = TRUE
    /\ pc = "run_git"
    /\ InitExecutor
    /\ state = create_initial_state
    /\ st = [a \in Agents |-> "idle"]
    /\ given = [a \in Agents |-> NoGiven]
    /\ res = [w \in Workers \cup {"reviewer"} |-> NoWorkerRes]
    /\ InitHist
    /\ \E c \in GitCommands, e \in ProcessEndings :
         proc = [cmd |-> c.cmd, check |-> c.check, ending |-> e, done |-> FALSE,
                 out |-> NoOutcome]
    /\ ledger = NoLedger

\* _run_git returns or raises
RunGit ==
    /\ pc = "run_git"
    /\ ~proc.done
    /\ proc' = [proc EXCEPT !.done = TRUE,
                            !.out = _run_git(proc.cmd, proc.check, proc.ending)]
    /\ pc' = "ran_git"
    /\ UNCHANGED <<ledger, gitVars, ctxVars, driver, dry_run, llm, exc, git_ops, plan, ti,
                   proposals, modified_files, final_state, flowVars, histVars>>

NextCmd == RunGit

SpecCmd == InitCmd /\ [][NextCmd]_vars

\* C22 as stated: a command that exits non-zero gives a result with
\* success=false, the captured output, the exit status and the command, and
\* nothing but a timeout raises.
C22_NonZeroExitReturnsResult ==
    proc.done =>
      /\ (proc.out.raised => proc.ending.timeout)
      /\ (~proc.ending.timeout /\ proc.ending.returncode # 0)
           => /\ ~proc.out.raised
              /\ ~proc.out.success
              /\ proc.out.stderr = proc.ending.stderr
              /\ proc.out.returncode = proc.ending.returncode
              /\ proc.out.command = proc.cmd

\* C22 amended: a timeout always raises GitError; a non-zero exit raises
\* GitError with the exit status and stderr when the call checks (the
\* default), and gives a result with success=false, stderr, the exit status
\* and the command when the call passes check=False; exit 0 gives a result
\* with success=true.
C22_CheckDecidesRaise ==
    proc.done =>
      IF proc.ending.timeout
      THEN proc.out.raised /\ proc.out.class = "GitError"
      ELSE IF proc.ending.returncode # 0 /\ proc.check
      THEN /\ proc.out.raised /\ proc.out.class = "GitError"
           /\ proc.out.returncode = proc.ending.returncode
           /\ proc.out.stderr = proc.ending.stderr
      ELSE /\ ~proc.out.raised
           /\ proc.out.success = (proc.ending.returncode = 0)
           /\ proc.out.stderr = proc.ending.stderr
           /\ proc.out.returncode = proc.ending.returncode
           /\ proc.out.command = proc.cmd

C22_Witness ==
    /\ proc.done /\ proc.cmd = "add" /\ proc.check
    /\ ~proc.ending.timeout /\ proc.ending.returncode = 128
    /\ proc.out.raised /\ proc.out.returncode = 128

\* C23: the error a timeout raises is of another kind than the error a
\* non-zero exit raises, for every command and every exit status: a caller
\* can tell the two apart by the exception's class or its returncode.
C23_TimeoutErrorDistinctKind ==
    (proc.done /\ proc.out.raised /\ ~proc.ending.timeout)
    => LET expired == _run_git(proc.cmd, proc.check,
                               [timeout |-> TRUE, returncode |-> 0, stderr |-> ""])
       IN <<proc.out.class, proc.out.returncode>> # <<expired.class, expired.returncode>>

\* ---------------------------------------------------------------- SpecPlan
\* Planner.create_plan called on a goal, and called again after the run's
\* state has moved on.

MaxWords == 2

GoalVocabulary ==
    {"Add", "address", "endpoint", "fix", "prefix", "latest", "tidy", "docs",
     "healthcheck", "documentation"}

GoalTexts == UNION {[1..n -> GoalVocabulary] : n \in 1..MaxWords}

InitPlan ==
    /\ repoKind = "git"
    /\ branches = {"main"} /\ current = "main" /\ originHead = "none"
    /\ wc = [p \in Paths |-> "orig"]
    /\ dirty = {} /\ index = {} /\ commitLog = {} /\ gitRes = NoRes
    /\ goal \in GoalTexts
    /\ branch_name = NoBranch
    /\ status = "pending"
    /\ errors = <<>>
    /\ saved = NoSnapshot
    /\ report = NoReport
    /\ driver = "none" /\ dry_run = FALSE /\ llm = TRUE
    /\ pc = "planner"
    /\ InitExecutor
    /\ InitFlowIdle
    /\ proc = NoProc
    /\ ledger = NoLedger
    /\ InitHist

PlanFrame == UNCHANGED <<proc, ledger, gitVars, goal, branch_name, saved, report, driver, dry_run,
                         llm, pc, exc, git_ops, proposals, modified_files, final_state,
                         flowVars, trace>>

\* planner.create_plan(goal)
PlannerCreatePlan ==
    /\ pc = "planner"
    /\ ti < 2
    /\ plan' = create_plan(goal)
    /\ ti' = ti + 1
    /\ UNCHANGED <<status, errors, statusHist>>
    /\ PlanFrame

\* The run moves on between two calls: a status change or a recorded error.
PlannerRunMoves ==
    /\ pc = "planner"
    /\ ti = 1
    /\ \/ /\ statusHist = <<>>
          /\ \E s \in {"planning", "executing"} : set_status(s)
          /\ UNCHANGED errors
       \/ /\ errors = <<>>
          /\ errors' = <<"Task failed">>
          /\ UNCHANGED <<status, statusHist>>
    /\ UNCHANGED <<plan, ti>>
    /\ PlanFrame

NextPlan == PlannerCreatePlan \/ PlannerRunMoves

SpecPlan == InitPlan /\ [][NextPlan]_vars

C25_TaskChain ==
    (pc = "planner" /\ ti >= 1)
    => /\ plan # <<>>
       /\ plan[1].dependencies = <<>>
       /\ \A i \in 2..Len(plan) : plan[i].dependencies = <<plan[i - 1].id>>
       /\ \A i \in 1..Len(plan) : \A j \in 1..Len(plan) :
            plan[i].id = plan[j].id => i = j

C25_Witness ==
    /\ pc = "planner" /\ ti = 1
    /\ goal = <<"Add", "endpoint">>
    /\ Len(plan) = 4
    /\ plan[4].dependencies = <<"task_03_test">>
    /\ plan[4].id = "task_04_document"

\* C26: the task types of a plan come in the order analyze, design, implement,
\* test, document, review, validate, each at most once, so the sequence is
\* fixed by the set of its types.
C26_FixedTypeOrder ==
    (pc = "planner" /\ ti >= 1)
    => LET order == <<"analyze", "design", "implement", "test", "document", "review",
                      "validate">>
           at(t) == CHOOSE n \in 1..Len(order) : order[n] = t
       IN /\ \A i \in 1..Len(plan) : \E n \in 1..Len(order) : order[n] = plan[i].type
          /\ \A i \in 1..Len(plan) : \A j \in 1..Len(plan) :
               i < j => at(plan[i].type) < at(plan[j].type)

C26_Witness ==
    /\ pc = "planner" /\ ti = 1
    /\ goal = <<"documentation", "endpoint">>
    /\ [i \in 1..Len(plan) |-> plan[i].type] = <<"analyze", "implement", "test", "document">>

\* C27: when a keyword of the table is one of the goal's tokens, the plan's
\* type set is the union of the type sets of the keywords that are tokens of
\* the goal: a keyword that is no token of the goal contributes nothing.
C27_TokensDecideTypes ==
    (pc = "planner" /\ ti >= 1)
    => LET tokens == {goal_lower(<<goal[i]>>) : i \in 1..Len(goal)}
           matched == {k \in DOMAIN KEYWORDS : Spell[k] \in tokens}
       IN matched # {}
          => {plan[i].type : i \in 1..Len(plan)} = UNION {KEYWORDS[k] : k \in matched}

C29_PlannedRoleHandlesType ==
    (pc = "planner" /\ ti >= 1)
    => \A i \in 1..Len(plan) :
         /\ plan[i].role =
              (CASE plan[i].type \in {"analyze", "design", "review"} -> "architect"
                 [] plan[i].type = "implement" -> "implementer"
                 [] plan[i].type \in {"test", "validate"} -> "tester"
                 [] plan[i].type = "document" -> "documenter")
         /\ role_execute(plan[i].role, plan[i].type) # "reject"

C29_Witness ==
    /\ pc = "planner" /\ ti = 1
    /\ goal = <<"tidy">>
    /\ plan[4].type = "test" /\ plan[4].role = "tester"
    /\ plan[5].type = "validate" /\ plan[5].role = "tester"
    /\ role_execute("tester", "validate") = "_validate"

\* C30: a task's statuses are a prefix of pending, in_progress, then one of
\* completed, failed, skipped; a task with a terminal status keeps it; no task
\* leaves the plan; and when the last task of the plan has been executed every
\* task has a terminal status.
C30_TaskStatusMonotone ==
    [][LET terminal == {"completed", "failed", "skipped"} IN
       /\ \A i \in 1..Len(plan) :
            /\ i <= Len(plan') /\ plan'[i].id = plan[i].id
            /\ plan[i].status \in terminal => plan'[i].status = plan[i].status
       /\ (driver \in Linear) =>
            \A i \in 1..Len(plan') :
              /\ plan'[i].status = plan'[i].history[Len(plan'[i].history)]
              /\ \/ plan'[i].history = <<"pending">>
                 \/ plan'[i].history = <<"pending", "in_progress">>
                 \/ \E t \in terminal : plan'[i].history = <<"pending", "in_progress", t>>
       /\ (pc = "execute_task" /\ pc' # "execute_task")
            => \A i \in 1..Len(plan') : plan'[i].status \in terminal]_vars

C30_Witness ==
    /\ pc = "apply_changes"
    /\ driver = "executor"
    /\ Len(plan) = 3
    /\ plan[1].history = <<"pending", "in_progress", "failed">>
    /\ plan[2].history = <<"pending", "in_progress", "completed">>
    /\ plan[3].status \in {"completed", "failed"}

\* ------------------------------------------------ the RunContext interface
\* Any sequence of RunContext calls in one runs directory (SpecCtx): the calls
\* that change an object are made on the first object created, while other
\* caller creates, saves and loads its own.

MaxLogs == 2

\* The seconds create can read from the clock, and the values uuid4().hex[:8]
\* can take.
Timestamps == {"20261103_101500", "20261103_101501"}
ShortIds == {"0a1b2c3d", "9e8f7a6b"}

InitLedger ==
    /\ repoKind = "git"
    /\ branches = {"main"} /\ current = "main" /\ originHead = "none"
    /\ wc = [p \in Paths |-> "orig"]
    /\ dirty = {} /\ index = {} /\ commitLog = {} /\ gitRes = NoRes
    /\ InitCtx
    /\ goal = "g1"
    /\ driver = "none" /\ dry_run = FALSE /\ llm = TRUE
    /\ pc = "ctx"
    /\ InitExecutor
    /\ InitFlowIdle
    /\ proc = NoProc
    /\ InitHist
    /\ ledger = NoLedger

\* The call `op` on object `i` leaves the objects as cs and the directory as
\* dir, and returns result.
Called(op, i, cs, dir, result) ==
    /\ pc = "ctx"
    /\ ledger' = [ctxs |-> cs, runs_dir |-> dir, call |-> op, run |-> i,
                  loaded |-> result]
    /\ UNCHANGED <<proc, gitVars, ctxVars, runVars, flowVars, histVars>>

\* RunContext.create(repo_path, goal)
CtxCreate ==
    /\ Len(ledger.ctxs) < 2
    /\ \E t \in Timestamps, u \in ShortIds :
         Called("create", Len(ledger.ctxs) + 1,
                Append(ledger.ctxs, create("/repo", goal, t, u)),
                ledger.runs_dir, NoLedger.loaded)

\* context.log(level, message, data), with data None, an empty dictionary or
\* a dictionary of one item
CtxLog ==
    /\ ledger.ctxs # <<>>
    /\ Len(ledger.ctxs[1].logs) < MaxLogs
    /\ \E d \in {[none |-> TRUE, items |-> {}], [none |-> FALSE, items |-> {}],
                 [none |-> FALSE, items |-> {<<"key", "value">>}]} :
         Called("log", 1,
                [ledger.ctxs EXCEPT ![1] = log(@, "INFO", "Test message", d)],
                ledger.runs_dir, NoLedger.loaded)

\* context.add_error(error)
CtxAddError ==
    /\ ledger.ctxs # <<>>
    /\ Len(ledger.ctxs[1].logs) < MaxLogs
    /\ Called("add_error", 1,
              [ledger.ctxs EXCEPT ![1] = add_error(@, "Something went wrong")],
              ledger.runs_dir, NoLedger.loaded)

\* context.set_status(status)
CtxSetStatus ==
    /\ ledger.ctxs # <<>>
    /\ Len(ledger.ctxs[1].logs) < MaxLogs
    /\ \E m \in {"PLANNING", "EXECUTING", "FAILED"} :
         Called("set_status", 1,
                [ledger.ctxs EXCEPT ![1] = ctx_set_status(@, m)],
                ledger.runs_dir, NoLedger.loaded)

\* context.branch_name = git_ops.generate_branch_name(context.goal)
CtxAssignBranch ==
    /\ ledger.ctxs # <<>>
    /\ ledger.ctxs[1].branch_name = NoBranch
    /\ Called("branch_name", 1,
              [ledger.ctxs EXCEPT
                  ![1].branch_name = generate_branch_name(ledger.ctxs[1].goal)],
              ledger.runs_dir, NoLedger.loaded)

\* context.save()
CtxSave ==
    \E i \in DOMAIN ledger.ctxs :
      Called("save", i, ledger.ctxs, save(ledger.runs_dir, ledger.ctxs[i]),
             NoLedger.loaded)

\* RunContext.load(run_id), for the id of an object or an id nothing has
CtxLoad ==
    \/ \E i \in DOMAIN ledger.ctxs :
         Called("load", i, ledger.ctxs, ledger.runs_dir,
                load(ledger.runs_dir, ledger.ctxs[i].run_id))
    \/ Called("load", 0, ledger.ctxs, ledger.runs_dir,
              load(ledger.runs_dir, "nonexistent_run_id"))

NextCtx ==
    \/ CtxCreate \/ CtxLog \/ CtxAddError \/ CtxSetStatus
    \/ CtxAssignBranch \/ CtxSave \/ CtxLoad

SpecCtx == InitLedger /\ [][NextCtx]_vars

\* C31: set_status(s) on a Run whose status is already s changes neither the
\* status nor the log, and a set_status that changes the status appends
\* exactly one log line.
C31_SetStatusLogsTransitions ==
    [][(ledger'.call = "set_status")
         => LET old == ledger.ctxs[1]
                new == ledger'.ctxs[1]
            IN IF new.status = old.status
               THEN new.logs = old.logs
               ELSE Len(new.logs) = Len(old.logs) + 1]_vars

C33_RunIdsUnique ==
    \A i, j \in DOMAIN ledger.ctxs :
        i # j => ledger.ctxs[i].run_id # ledger.ctxs[j].run_id

\* ------------------------------------------------ GitOps.generate_branch_name
\* generate_branch_name applied to goal strings, written as character
\* sequences, on the dates the clock can show (SpecSlug).

MaxPieces == 2

\* str.isalnum() on one character of the goal alphabet
isalnum(c) ==
    c \in {"a", "b", "c", "d", "e", "g", "h", "i", "k", "l", "n", "o", "p", "r",
           "s", "t", "u", "v", "y", "A", "I", "P", "T", "2"}

\* The slug of generate_branch_name: lower-cased, reduced to alphanumerics
\* and spaces, the words joined by dashes, cut at SlugLimit characters.
SlugLimit == 40

slug_Uncut(text) ==
    LET kept == SelectSeq([i \in 1..Len(text) |-> lower(text[i])],
                          LAMBDA c : isalnum(c) \/ c = " ")
        \* positions of word characters and of the first space after a word
        \* that has a word after it
        at == SelectSeq([i \in 1..Len(kept) |-> i],
                        LAMBDA i : \/ kept[i] # " "
                                   \/ /\ i > 1
                                      /\ kept[i - 1] # " "
                                      /\ \E j \in (i + 1)..Len(kept) : kept[j] # " ")
        joined == [k \in 1..Len(at) |-> IF kept[at[k]] = " " THEN "-" ELSE kept[at[k]]]
    IN joined

slug(text) ==
    LET kept == SelectSeq([i \in 1..Len(text) |-> lower(text[i])],
                          LAMBDA c : isalnum(c) \/ c = " ")
        \* positions of word characters and of the first space after a word
        \* that has a word after it
        at == SelectSeq([i \in 1..Len(kept) |-> i],
                        LAMBDA i : \/ kept[i] # " "
                                   \/ /\ i > 1
                                      /\ kept[i - 1] # " "
                                      /\ \E j \in (i + 1)..Len(kept) : kept[j] # " ")
        joined == [k \in 1..Len(at) |-> IF kept[at[k]] = " " THEN "-" ELSE kept[at[k]]]
    IN SubSeq(joined, 1, IF Len(joined) < SlugLimit THEN Len(joined) ELSE SlugLimit)

\* Goal strings: up to MaxPieces pieces in a row.
GoalStrings ==
    LET GoalPieces ==
            {<<"A", "d", "d">>, <<" ">>, <<"h", "e", "a", "l", "t", "h", "c", "h", "e", "c", "k">>,
             <<"A", "P", "I", "_", "v", "2", "!">>,
             <<"T", "h", "i", "s", " ", "i", "s", " ", "a", " ", "v", "e", "r", "y",
             " ", "l", "o", "n", "g", " ", "g", "o", "a", "l", " ", "t", "h", "a",
             "t", " ", "s", "h", "o", "u", "l", "d", " ", "b", "e", " ", "t", "r",
             "u", "n", "c", "a", "t", "e", "d", " ">>}
        flatten[ps \in UNION {[1..n -> GoalPieces] : n \in 0..MaxPieces}] ==
            IF ps = <<>> THEN <<>> ELSE ps[1] \o flatten[Tail(ps)]
    IN {flatten[ps] : ps \in UNION {[1..n -> GoalPieces] : n \in 1..MaxPieces}}

\* datetime.now().strftime("%Y%m%d") on the days the calls are made
Dates == {"20261103", "20261104"}

InitSlug ==
    /\ repoKind = "git"
    /\ branches = {"main"} /\ current = "main" /\ originHead = "none"
    /\ wc = [p \in Paths |-> "orig"]
    /\ dirty = {} /\ index = {} /\ commitLog = {} /\ gitRes = NoRes
    /\ goal \in GoalStrings
    /\ branch_name = NoBranch
    /\ status = "pending"
    /\ errors = <<>>
    /\ saved = NoSnapshot
    /\ report = NoReport
    /\ driver = "none" /\ dry_run = FALSE /\ llm = TRUE
    /\ pc = "branch_name"
    /\ InitExecutor
    /\ InitFlowIdle
    /\ proc = NoProc
    /\ ledger = NoLedger
    /\ InitHist

\* git_ops.generate_branch_name(goal), called at most twice, on one day or on
\* two; trace keeps the date each call read and the name it returned.
GenerateBranchName ==
    /\ pc = "branch_name"
    /\ Len(trace) < 2
    /\ \E date \in Dates :
         /\ \A i \in DOMAIN trace : trace[i].date # "20261104" \/ date = "20261104"
         /\ trace' = Append(trace,
                [date |-> date,
                 name |-> <<"orchestrator", "/", date, "/">> \o slug(goal)])
    /\ UNCHANGED <<proc, ledger, gitVars, ctxVars, runVars, flowVars, statusHist>>

SpecSlug == InitSlug /\ [][GenerateBranchName]_vars

\* C34: two calls with the same goal on the same date return the same name,
\* the name is prefix/YYYYMMDD/slug, the slug holds only lower-case
\* alphanumerics and dashes, and the slug is at most 40 characters long
\* however long the goal is.
C34_BranchNameForm ==
    /\ \A i, j \in DOMAIN trace :
         trace[i].date = trace[j].date => trace[i].name = trace[j].name
    /\ \A i \in DOMAIN trace :
         LET name == trace[i].name
             s == SubSeq(name, 5, Len(name))
         IN /\ SubSeq(name, 1, 4) = <<"orchestrator", "/", trace[i].date, "/">>
            /\ trace[i].date \in Dates
            /\ Len(s) <= 40
            /\ \A k \in DOMAIN s :
                 \/ s[k] = "-"
                 \/ isalnum(s[k]) /\ lower(s[k]) = s[k]

\* A goal of 100 characters was named twice on one day; its slug was cut.
C34_Witness ==
    /\ Len(goal) = 100
    /\ Len(trace) = 2
    /\ trace[1].date = trace[2].date
    /\ Len(trace[1].name) = 44
    /\ \E k \in 5..44 : trace[1].name[k] = "-"

\* C35: with --dry-run the run command makes no step that creates a branch,
\* invokes a role, applies a file change, stages or commits; the working
\* copy, the branches, the index and the commits stay as they were; and when
\* the command returns after planning the run is Completed and saved so.
C35_DryRunStopsAfterPlanning ==
    [][dry_run
         => /\ UNCHANGED <<repoKind, branches, current, originHead, wc, dirty,
                           index, commitLog>>
            /\ gitRes'.op \notin {"create_branch", "checkout_branch", "stage_files",
                                  "commit"}
            /\ trace' = <<>>
            /\ proposals' = <<>>
            /\ modified_files' = <<>>
            /\ \A i \in DOMAIN plan' : plan'[i].status = "pending"
            /\ (pc' = "returned")
                 => /\ plan' # <<>>
                    /\ status' = "completed"
                    /\ saved'.status = "completed"]_vars

\* A dry run returned after its plan was made.
C35_Witness ==
    /\ driver = "cli_run"
    /\ dry_run
    /\ pc = "returned"
    /\ Len(plan) >= 2
    /\ statusHist = <<"planning", "completed">>
    /\ saved.status = "completed"

C37_CommitOnlyOnRunBranch ==
    [][/\ (gitRes'.op \in {"stage_files", "commit"})
            => /\ branch_name = generate_branch_name(goal)
               /\ current = branch_name
               /\ ~is_protected_branch(current)
       /\ (gitRes'.op = "create_branch" /\ gitRes'.outcome = "ok")
            => /\ gitRes'.arg \notin branches
               /\ ~is_protected_branch(gitRes'.arg)
               /\ current' = gitRes'.arg
               /\ branch_name' = gitRes'.arg
       /\ (gitRes'.op = "create_branch" /\ gitRes'.outcome = "raise")
            => /\ pc' = "except"
               /\ branch_name' = NoBranch
       /\ (gitRes.op = "create_branch" /\ gitRes.outcome = "raise")
            => /\ status' = "failed"
               /\ pc' \in {"raised", "crashed", "exit1"}
       /\ (branch_name' = NoBranch)
            => /\ \A i \in DOMAIN trace' : trace'[i] = "branch"
               /\ proposals' = <<>>
               /\ modified_files' = <<>>
               /\ wc' = wc
               /\ index' = index
               /\ commitLog' = commitLog]_vars

\* A Linear run whose create_branch was refused ended Failed with its plan
\* untouched.
C37_Witness ==
    /\ driver = "executor"
    /\ exc = "GitError"
    /\ branch_name = NoBranch
    /\ pc = "raised"
    /\ status = "failed"
    /\ Len(plan) >= 2
    /\ \A i \in DOMAIN plan : plan[i].status = "pending"
    /\ \E i \in DOMAIN errors : errors[i] = "Failed to create branch"

\* C38: after execute_plan has returned, Executor.proposals holds one
\* Proposal per task of the plan, in plan order, a failure Proposal included
\* for every task whose role raised.
C38_OneProposalPerTask ==
    (driver = "executor" /\ pc = "apply_changes")
    => /\ Len(proposals) = Len(plan)
       /\ \A i \in DOMAIN proposals :
            /\ proposals[i].role = plan[i].role
            /\ proposals[i].success = (plan[i].status = "completed")

\* C39: each time Executor.execute_plan saves the Run state after a task,
\* the task entries of the saved state hold, for every task of the plan, the
\* status the task has reached: Completed or Failed for the executed tasks,
\* Pending for the others.
C39_SavedTaskStatuses ==
    [][(pc = "execute_task" /\ driver = "executor")
         => /\ Len(saved'.tasks) = Len(plan')
            /\ \A i \in DOMAIN plan' :
                 /\ saved'.tasks[i].id = plan'[i].id
                 /\ saved'.tasks[i].status = plan'[i].status]_vars

\* C40: a run started on a repository that already holds the branch of an
\* earlier run of the same goal and date computes that same branch name; its
\* create_branch is refused because the branch exists, the run goes to its
\* except branch and ends Failed, and no step of it changes the branches, the
\* commits, the index, the working copy or the checked-out branch.
C40_SecondRunRefused ==
    [][(generate_branch_name(goal) \in branches /\ branch_name = NoBranch)
         => /\ UNCHANGED <<branches, current, commitLog, index, wc, dirty>>
            /\ branch_name' = NoBranch
            /\ gitRes'.op \in {"none", "create_branch"}
            /\ (gitRes'.op = "create_branch")
                 => /\ gitRes'.arg = generate_branch_name(goal)
                    /\ gitRes'.outcome = "raise"
                    /\ gitRes'.err = "exists"
                    /\ pc' = "except"
            /\ (gitRes.op = "create_branch")
                 => /\ status' = "failed"
                    /\ pc' \in {"raised", "crashed", "exit1"}]_vars

\* The second run ended Failed; the first run's branch and commit are there.
C40_Witness ==
    /\ pc = "raised"
    /\ status = "failed"
    /\ branch_name = NoBranch
    /\ current = generate_branch_name(goal)
    /\ commitLog = {[branch |-> generate_branch_name(goal)]}
    /\ \E i \in DOMAIN errors : errors[i] = "Failed to create branch"
    /\ saved.status = "failed"

====
